---- MODULE Spec2Model ----
(***************************************************************************)
(* Model of the cypress geocoding pipeline (catenarytransit/cypress).      *)
(*                                                                         *)
(* Spec       the ingest of one PBF file (run_single): the extraction      *)
(*            stage, the processing task (run_processing_pipeline /        *)
(*            process_buffer), the bulk indexer task (run_indexer / flush) *)
(*            and the two sinks (text index, KV store).                    *)
(* SpecQuery  the query-side conversion of a hydrated place into a search  *)
(*            result (place_to_search_result, place_to_search_result_v2).  *)
(*                                                                         *)
(* Conventions: Option<T> is a sequence of length 0 or 1; a HashMap is a   *)
(* function whose DOMAIN is its key set; a JSON object is a function from   *)
(* field names to values in which an omitted field is outside the DOMAIN;  *)
(* a text is the sequence of its whitespace-separated tokens; the string   *)
(* format!("{}/{}", t, id) is the pair <<t, id>>.                           *)
(***************************************************************************)
EXTENDS Integers, Sequences, FiniteSets, TLC

\* ------------------------------------------------------------------ bounds
\* args.batch_size of the run
BatchSize == 2
\* number of OSM objects in the PBF file of the run
MaxObjects == 2
\* number of KV upsert calls that are allowed to fail in one run
MaxKvFailures == 1
\* number of hits the text index returns for one request
MaxHits == 3
\* number of admin boundaries in the spatial index of a PIP lookup
MaxBoundaries == 4
\* number of distinct points of the ring a relation's member ways are cut from
MaxRingPoints == 4
\* number of lines of a synonym file
MaxSynLines == 2
\* number of full chunks of Q-IDs in a batch
MaxFullChunks == 1
\* number of document ids of the text index in a refresh
MaxDocs == 2
\* latest time of the clock in a refresh
MaxClock == 3
\* number of ways handed to the way merger on its own
MaxWays == 3
\* number of fragments handed to the ring stitcher on its own
MaxFragments == 3
\* number of nodes of a file handed to the node table on its own
MaxNodes == 3
\* number of regions of a batch configuration
MaxRegions == 4

\* ------------------------------------------------------- program constants
\* capacity of the extraction -> processing channel
PIPELINE_CAPACITY == 2000
\* capacity of the processing -> indexer channel is batch_size * INDEXER_CAPACITY_FACTOR
INDEXER_CAPACITY_FACTOR == 2
\* to_fetch.chunks(50)
CHUNK_SIZE == 50
\* fetch_chunk: let max_attempts = 2
max_attempts == 2

\* ------------------------------------------------------------------ Option
None == <<>>
Some(v) == <<v>>
IsSome(o) == o /= <<>>
Unwrap(o) == o[1]

\* HashMap::insert
MapInsert(m, k, v) == (k :> v) @@ m
\* the empty HashMap
EmptyMap == <<>>

\* ------------------------------------------------------------- AdminLevel
AdminLevel_all ==
    << "Country", "MacroRegion", "Region", "MacroCounty", "County",
       "LocalAdmin", "Locality", "Borough", "Neighbourhood" >>

AdminLevels == { AdminLevel_all[i] : i \in DOMAIN AdminLevel_all }

\* derive(PartialOrd, Ord): the position of the variant in the enum
LevelOrd(level) == CHOOSE i \in DOMAIN AdminLevel_all : AdminLevel_all[i] = level

\* ------------------------------------------------------------------ Layer
Layers ==
    { "Venue", "Address", "Street", "Admin", "Neighbourhood", "Locality",
      "County", "Region", "MacroCounty", "MacroRegion", "LocalAdmin",
      "Borough", "Country" }

get_layer_rank(layer) ==
    CASE layer = "Country" -> 100
      [] layer = "MacroRegion" -> 90
      [] layer = "Region" -> 80
      [] layer = "MacroCounty" -> 70
      [] layer = "County" -> 60
      [] layer = "LocalAdmin" -> 50
      [] layer = "Locality" -> 40
      [] layer = "Borough" -> 30
      [] layer = "Neighbourhood" -> 20
      [] layer \in {"Street", "Address", "Venue"} -> 10
      [] layer = "Admin" -> 50

\* ------------------------------------------------- AdminEntry and its JSON
\* AdminEntry::from_area
AdminEntry_from_area(area) ==
    [ name  |-> IF "default" \in DOMAIN area.name
                THEN Some(area.name["default"])
                ELSE IF DOMAIN area.name /= {}
                     THEN Some(area.name[CHOOSE k \in DOMAIN area.name : TRUE])
                     ELSE None,
      abbr  |-> area.abbr,
      id    |-> Some(area.osm_id),
      bbox  |-> area.bbox,
      names |-> area.name ]

\* the Option fields of a JSON object that are written (skip_serializing_if
\* = "Option::is_none")
OptionFields(e, fields) == { f \in fields : IsSome(e[f]) }

\* serde default serialization of AdminEntry: names carries #[serde(skip)]
Serialize_AdminEntry(e) ==
    [ f \in OptionFields(e, {"name", "abbr", "id", "bbox"}) |-> Unwrap(e[f]) ]

\* AdminEntry::to_scylla_json: AdminEntryScylla, names skipped when empty
to_scylla_json(e) ==
    LET opt == OptionFields(e, {"name", "abbr", "id", "bbox"})
        all == IF DOMAIN e.names = {} THEN opt ELSE opt \cup {"names"}
    IN  [ f \in all |-> IF f = "names" THEN e.names ELSE Unwrap(e[f]) ]

\* serde_json::from_str::<AdminEntryScylla>: Option fields default to None,
\* names has no default, so a document without it is an error (None here)
Deserialize_AdminEntryScylla(json) ==
    IF "names" \notin DOMAIN json
    THEN None
    ELSE Some([ name  |-> IF "name" \in DOMAIN json THEN Some(json["name"]) ELSE None,
                abbr  |-> IF "abbr" \in DOMAIN json THEN Some(json["abbr"]) ELSE None,
                id    |-> IF "id" \in DOMAIN json THEN Some(json["id"]) ELSE None,
                bbox  |-> IF "bbox" \in DOMAIN json THEN Some(json["bbox"]) ELSE None,
                names |-> json["names"] ])

\* AdminEntry::from_scylla
from_scylla(scylla_entry) ==
    [ name  |-> scylla_entry.name,
      abbr  |-> scylla_entry.abbr,
      id    |-> scylla_entry.id,
      bbox  |-> scylla_entry.bbox,
      names |-> scylla_entry.names ]

\* AdminHierarchy::default(): nine empty slots
AdminHierarchy_default == [ l \in AdminLevels |-> None ]

\* ------------------------------------------------------------------ Place
OsmTypes == {"node", "way", "relation"}

\* format!("{}/{}", osm_type, osm_id)
source_id_of(osm_type, osm_id) == << osm_type, osm_id >>

\* Place::new
Place_new(osm_type, osm_id, layer, center) ==
    [ source_id   |-> source_id_of(osm_type, osm_id),
      osm_type    |-> osm_type,
      osm_id      |-> osm_id,
      wikidata_id |-> None,
      layer       |-> layer,
      categories  |-> <<>>,
      name        |-> EmptyMap,
      phrase      |-> None,
      center_point |-> center,
      bbox        |-> None,
      parent      |-> AdminHierarchy_default ]

\* Place::add_name
add_name(place, lang, name) ==
    [ place EXCEPT
        !.phrase = IF lang = "default" \/ lang = "" THEN Some(name) ELSE @,
        !.name = MapInsert(@, lang, name) ]

\* Place::add_category: format!("{}:{}", key, value)
add_category(place, key, value) ==
    [ place EXCEPT !.categories = Append(@, << key, value >>) ]

\* Place::sanitize, called by run_single before every send: taken to leave
\* the fields of the model as they are.
sanitize(place) == place

\* NormalizedPlace::from_place
from_place(place) ==
    [ source_id   |-> place.source_id,
      osm_type    |-> place.osm_type,
      osm_id      |-> place.osm_id,
      wikidata_id |-> place.wikidata_id,
      layer       |-> place.layer,
      categories  |-> place.categories,
      name        |-> place.name,
      phrase      |-> place.phrase,
      center_point |-> place.center_point,
      bbox        |-> place.bbox,
      parent      |-> [ l \in AdminLevels |->
                          IF IsSome(place.parent[l]) /\ IsSome(Unwrap(place.parent[l]).id)
                          THEN Some(source_id_of("relation", Unwrap(Unwrap(place.parent[l]).id)))
                          ELSE None ] ]

\* ------------------------------------------------------------ geometry
\* A point is a cell of a small grid; the geometry of a boundary is given by
\* the cells it contains, its unsigned area, its centroid and its envelope.
Cells == 1..3

\* GeoBbox::new
GeoBbox_new(min_lon, min_lat, max_lon, max_lat) ==
    [ type |-> "envelope",
      coordinates |-> << <<min_lon, max_lat>>, <<max_lon, min_lat>> >> ]

\* ------------------------------------------------------ admin boundaries
\* AdminArea::new plus the fields filled by the boundary extractor
AdminArea(osm_id, level, name, abbr, iso, wikidata_id) ==
    [ osm_id |-> osm_id, level |-> level, wikidata_id |-> wikidata_id,
      name |-> name, bbox |-> None, abbr |-> abbr, iso_country_code |-> iso ]

\* AdminBoundary { area, geometry }
AdminBoundary(area, cells, unsigned_area, centroid, envelope) ==
    [ area |-> area, cells |-> cells, unsigned_area |-> unsigned_area,
      centroid |-> centroid, envelope |-> envelope ]

CountryA ==
    AdminBoundary(
        AdminArea(1, "Country", ("default" :> <<"Aland">>) @@ ("de" :> <<"Aland-de">>),
                  Some("AA"), Some("AA"), Some("Q1")),
        {1, 2}, 4, Some(1), <<0, 0, 2, 2>>)

RegionA ==
    AdminBoundary(
        AdminArea(2, "Region", ("default" :> <<"North">>), None, Some("AA"), None),
        {1}, 1, Some(1), <<0, 0, 1, 1>>)

LocalityA ==
    AdminBoundary(
        AdminArea(3, "Locality", ("de" :> <<"Dorf">>), None, None, None),
        {1, 2}, 2, Some(2), <<0, 0, 2, 1>>)

\* the contents of the spatial index a run may start from, in R-tree order
SpatialIndexInputs ==
    { << CountryA, RegionA >>, << LocalityA, CountryA >> }

\* AdminBoundary::bbox
boundary_bbox(b) == Some(b.envelope)

\* AdminSpatialIndex::lookup: the indexed boundaries that contain the point
index_lookup(index, point) ==
    SelectSeq(index, LAMBDA b : point \in b.cells)

\* a variant of FirstMinBy that takes the first element without sorting,
\* against which C14 is tested
FirstMinBy_Unsorted(seq, key) == seq[1]

\* the first element of seq whose key is smallest, key[i] being the sort key
\* of seq[i] (a stable sort by the key followed by first())
FirstMinBy(seq, key) ==
    LET i == CHOOSE i \in DOMAIN seq :
                 /\ \A j \in DOMAIN seq : key[i] <= key[j]
                 /\ \A j \in 1..(i - 1) : key[j] > key[i]
    IN  seq[i]

\* a variant of PipService::lookup without the country-code filter, against
\* which C13 is tested
pip_lookup_NoCountryEnforcement(index, point, limit_level) ==
    LET found == index_lookup(index, point)
        boundaries ==
            IF IsSome(limit_level)
            THEN SelectSeq(found,
                           LAMBDA b : LevelOrd(b.area.level) < LevelOrd(Unwrap(limit_level)))
            ELSE found
        with_code == SelectSeq(boundaries, LAMBDA b : IsSome(b.area.iso_country_code))
        forced_country_code ==
            IF with_code = <<>>
            THEN None
            ELSE FirstMinBy(with_code,
                            [ i \in DOMAIN with_code |->
                                0 - LevelOrd(with_code[i].area.level) ]).area.iso_country_code
        at_level(level) ==
            LET same == SelectSeq(boundaries, LAMBDA b : b.area.level = level)
            IN  IF FALSE
                THEN SelectSeq(same,
                               LAMBDA b : \/ b.area.iso_country_code = forced_country_code
                                          \/ b.area.abbr = forced_country_code)
                ELSE same
    IN  [ level \in AdminLevels |->
            IF at_level(level) = <<>>
            THEN None
            ELSE Some(AdminEntry_from_area(
                          FirstMinBy(at_level(level),
                                     [ i \in DOMAIN at_level(level) |->
                                         at_level(level)[i].unsigned_area ]).area)) ]

\* a variant of PipService::lookup whose limit level keeps the boundaries of
\* the limit level itself, against which C15 is tested
pip_lookup_LimitInclusive(index, point, limit_level) ==
    LET found == index_lookup(index, point)
        boundaries ==
            IF IsSome(limit_level)
            THEN SelectSeq(found,
                           LAMBDA b : LevelOrd(b.area.level) <= LevelOrd(Unwrap(limit_level)))
            ELSE found
        with_code == SelectSeq(boundaries, LAMBDA b : IsSome(b.area.iso_country_code))
        forced_country_code ==
            IF with_code = <<>>
            THEN None
            ELSE FirstMinBy(with_code,
                            [ i \in DOMAIN with_code |->
                                0 - LevelOrd(with_code[i].area.level) ]).area.iso_country_code
        at_level(level) ==
            LET same == SelectSeq(boundaries, LAMBDA b : b.area.level = level)
            IN  IF level = "Country" /\ IsSome(forced_country_code)
                THEN SelectSeq(same,
                               LAMBDA b : \/ b.area.iso_country_code = forced_country_code
                                          \/ b.area.abbr = forced_country_code)
                ELSE same
    IN  [ level \in AdminLevels |->
            IF at_level(level) = <<>>
            THEN None
            ELSE Some(AdminEntry_from_area(
                          FirstMinBy(at_level(level),
                                     [ i \in DOMAIN at_level(level) |->
                                         at_level(level)[i].unsigned_area ]).area)) ]

\* PipService::lookup
pip_lookup(index, point, limit_level) ==
    LET found == index_lookup(index, point)
        boundaries ==
            IF IsSome(limit_level)
            THEN SelectSeq(found,
                           LAMBDA b : LevelOrd(b.area.level) < LevelOrd(Unwrap(limit_level)))
            ELSE found
        with_code == SelectSeq(boundaries, LAMBDA b : IsSome(b.area.iso_country_code))
        forced_country_code ==
            IF with_code = <<>>
            THEN None
            ELSE FirstMinBy(with_code,
                            [ i \in DOMAIN with_code |->
                                0 - LevelOrd(with_code[i].area.level) ]).area.iso_country_code
        at_level(level) ==
            LET same == SelectSeq(boundaries, LAMBDA b : b.area.level = level)
            IN  IF level = "Country" /\ IsSome(forced_country_code)
                THEN SelectSeq(same,
                               LAMBDA b : \/ b.area.iso_country_code = forced_country_code
                                          \/ b.area.abbr = forced_country_code)
                ELSE same
    IN  [ level \in AdminLevels |->
            IF at_level(level) = <<>>
            THEN None
            ELSE Some(AdminEntry_from_area(
                          FirstMinBy(at_level(level),
                                     [ i \in DOMAIN at_level(level) |->
                                         at_level(level)[i].unsigned_area ]).area)) ]

\* ------------------------------------------------------------- synonyms
\* SynonymService.replacements, as loaded from the synonym files
replacements == ("street" :> "st")

SeqRangeOf(seq) == { seq[i] : i \in DOMAIN seq }

\* token.trim_matches(|c| !c.is_alphanumeric()).to_lowercase()
clean_token(token) ==
    CASE token = "Street" -> "street"
      [] token = "Main" -> "main"
      [] token = "Avenue," -> "avenue"
      [] token = "Ave." -> "ave"
      [] token = "Cafe" -> "cafe"
      [] token = "Hall" -> "hall"
      [] OTHER -> token

\* SynonymService::normalize on the replacement table self: a token whose
\* cleaned form is a key is replaced, any other token is kept as written
SynonymService_normalize(self, text) ==
    [ i \in DOMAIN text |->
        IF clean_token(text[i]) \in DOMAIN self
        THEN self[clean_token(text[i])]
        ELSE text[i] ]

\* SynonymService::normalize of the service the ingest runs with
normalize(text) == SynonymService_normalize(replacements, text)

\* one line of a synonym file after cleaning, as the sequence of its parts
\* between "=>", each part being its comma-separated items: a line without
\* "=>" has one part. An explicit mapping (two parts) maps every left item to
\* the first right item, an equivalence list maps every later item to the
\* first; an item equal to its target is not inserted, and a line with more
\* than one "=>" inserts nothing.
load_line(table, parts) ==
    LET target == IF Len(parts) = 1 THEN parts[1][1] ELSE parts[2][1]
        srcs == IF Len(parts) = 1 THEN SeqRangeOf(Tail(parts[1]))
                ELSE SeqRangeOf(parts[1])
        keys == { src \in srcs : src /= target }
    IN  IF Len(parts) > 2 THEN table
        ELSE [ k \in DOMAIN table \cup keys |-> IF k \in keys THEN target ELSE table[k] ]

\* SynonymService::load_file: the lines are inserted in file order, a later
\* insert of a key replacing an earlier one
RECURSIVE load_file(_, _)
load_file(table, lines) ==
    IF lines = <<>> THEN table
    ELSE load_file(load_line(table, Head(lines)), Tail(lines))

\* ------------------------------------------------------------- OSM tags
HasTag(tags, key) == key \in DOMAIN tags
TagIs(tags, key, value) == HasTag(tags, key) /\ tags[key] = value

PlaceAdminValues ==
    { "country", "state", "region", "province", "district", "county",
      "municipality", "city", "town", "village", "hamlet", "borough", "suburb",
      "quarter", "neighbourhood", "island", "archipelago" }

\* determine_layer
determine_layer(tags) ==
    IF HasTag(tags, "place")
    THEN IF tags["place"] \in PlaceAdminValues THEN Some("Admin") ELSE None
    ELSE IF HasTag(tags, "admin_level")
    THEN IF TagIs(tags, "boundary", "administrative") THEN Some("Admin") ELSE None
    ELSE IF HasTag(tags, "addr:housenumber") /\ HasTag(tags, "addr:street")
    THEN Some("Address")
    ELSE IF \/ HasTag(tags, "amenity") \/ HasTag(tags, "shop")
            \/ HasTag(tags, "tourism") \/ HasTag(tags, "leisure")
    THEN Some("Venue")
    ELSE None

RoadHighwayValues ==
    { "residential", "primary", "secondary", "tertiary", "unclassified",
      "service", "living_street", "pedestrian", "track", "road", "footway",
      "cycleway", "path" }

\* is_road_way
is_road_way(tags) ==
    IF HasTag(tags, "highway")
    THEN IF ~HasTag(tags, "name") THEN FALSE ELSE tags["highway"] \in RoadHighwayValues
    ELSE FALSE

\* the name:<lang> keys of the model and their language suffix
NameLangKeys == ("name:de" :> "de") @@ ("name:xx-yyy-zzzz" :> "xx-yyy-zzzz")

\* str::len of the language codes of the model
LangLen == ("de" :> 2) @@ ("xx-yyy-zzzz" :> 11)

\* is_valid_lang_code (the codes of the model are alphabetic or '-')
is_valid_lang_code(lang) == LangLen[lang] >= 2 /\ LangLen[lang] <= 10

\* the category keys in the key order of Tags
CategoryKeys ==
    << "amenity", "building", "cuisine", "historic", "leisure", "office",
       "shop", "tourism" >>

RECURSIVE add_categories(_, _, _)
add_categories(place, tags, i) ==
    IF i > Len(CategoryKeys)
    THEN place
    ELSE add_categories(
             IF HasTag(tags, CategoryKeys[i])
             THEN add_category(place, CategoryKeys[i], tags[CategoryKeys[i]])
             ELSE place,
             tags, i + 1)

\* extract_tags: names, wikidata and categories
extract_tags(place, tags) ==
    LET p1 == IF HasTag(tags, "name")
              THEN add_name(place, "default", normalize(tags["name"]))
              ELSE place
        p2 == IF HasTag(tags, "name:de") /\ is_valid_lang_code(NameLangKeys["name:de"])
              THEN add_name(p1, NameLangKeys["name:de"], tags["name:de"])
              ELSE p1
        p3 == IF /\ HasTag(tags, "name:xx-yyy-zzzz")
                 /\ is_valid_lang_code(NameLangKeys["name:xx-yyy-zzzz"])
              THEN add_name(p2, NameLangKeys["name:xx-yyy-zzzz"], tags["name:xx-yyy-zzzz"])
              ELSE p2
        p4 == IF HasTag(tags, "alt_name")
              THEN add_name(p3, "alt_name", tags["alt_name"])
              ELSE p3
        p5 == IF HasTag(tags, "wikidata")
              THEN [ p4 EXCEPT !.wikidata_id = Some(tags["wikidata"]) ]
              ELSE p4
    IN  add_categories(p5, tags, 1)

\* a variant of extract_place without the skip of admin-boundary relations
\* (main.rs:721-727), against which C9 is tested
extract_place_KeepAdminRelations(obj) ==
    LET layer == determine_layer(obj.tags)
    IN  IF ~IsSome(layer) THEN None
        ELSE IF ~IsSome(obj.center) THEN None
        ELSE Some([ extract_tags(Place_new(obj.type, obj.id, Unwrap(layer), Unwrap(obj.center)),
                                 obj.tags)
                    EXCEPT !.bbox = IF obj.type = "node" THEN None ELSE obj.bbox ])

\* extract_place: obj.center is the node location, resolve_centroid(way) or
\* the centroid of resolve_relation(rel), None when the geometry is unresolved
extract_place(obj) ==
    LET layer == determine_layer(obj.tags)
    IN  IF ~IsSome(layer) THEN None
        ELSE IF obj.type = "relation" /\ Unwrap(layer) = "Admin" THEN None
        ELSE IF ~IsSome(obj.center) THEN None
        ELSE Some([ extract_tags(Place_new(obj.type, obj.id, Unwrap(layer), Unwrap(obj.center)),
                                 obj.tags)
                    EXCEPT !.bbox = IF obj.type = "node" THEN None ELSE obj.bbox ])

\* ------------------------------------------------------------ way merger
\* a get_merge_key that keys every named highway, links and motorways
\* included, against which C29 is tested
get_merge_key_NoExclusion(tags) ==
    IF ~HasTag(tags, "name") THEN None
    ELSE IF ~HasTag(tags, "highway") THEN None
    ELSE Some(tags["name"] \o << "|", tags["highway"] >>)

\* WayMerger::get_merge_key: format!("{}|{}", name, highway), the tokens of
\* the name followed by the separator and the highway value
get_merge_key(tags) ==
    IF ~HasTag(tags, "name") THEN None
    ELSE IF ~HasTag(tags, "highway") THEN None
    ELSE IF tags["highway"] \in { "motorway", "motorway_link", "trunk_link",
                                  "primary_link", "secondary_link", "tertiary_link" }
    THEN None
    ELSE Some(tags["name"] \o << "|", tags["highway"] >>)

\* RoadWay { way_id, tags, nodes }; center and bbox stand for the coordinates
\* the geometry resolver has for its nodes
RoadWay(way_id, tags, nodes, center, bbox) ==
    [ way_id |-> way_id, tags |-> tags, nodes |-> nodes, center |-> center, bbox |-> bbox ]

\* WayMerger::add_road
add_road(roads_by_name, road) ==
    LET key == get_merge_key(road.tags)
    IN  IF IsSome(key)
        THEN IF Unwrap(key) \in DOMAIN roads_by_name
             THEN [ roads_by_name EXCEPT ![Unwrap(key)] = Append(@, road) ]
             ELSE (Unwrap(key) :> << road >>) @@ roads_by_name
        ELSE roads_by_name

\* nodes.first() / nodes.last()
first_node(way) == IF way.nodes = <<>> THEN None ELSE Some(Head(way.nodes))
last_node(way) == IF way.nodes = <<>> THEN None ELSE Some(way.nodes[Len(way.nodes)])

\* WayMerger::is_connected_to_group
is_connected_to_group(group, way) ==
    \E g \in DOMAIN group :
        \/ first_node(way) = first_node(group[g])
        \/ first_node(way) = last_node(group[g])
        \/ last_node(way) = first_node(group[g])
        \/ last_node(way) = last_node(group[g])

\* Vec::remove(i)
RemoveAt(seq, i) == SubSeq(seq, 1, i - 1) \o SubSeq(seq, i + 1, Len(seq))

\* for i in (0..remaining.len()).rev(): move every connected way to the group
RECURSIVE scan_remaining(_, _, _, _)
scan_remaining(group, remaining, i, changed) ==
    IF i = 0
    THEN [ group |-> group, remaining |-> remaining, changed |-> changed ]
    ELSE IF is_connected_to_group(group, remaining[i])
         THEN scan_remaining(Append(group, remaining[i]), RemoveAt(remaining, i), i - 1, TRUE)
         ELSE scan_remaining(group, remaining, i - 1, changed)

\* while changed && !remaining.is_empty()
RECURSIVE grow_group(_, _)
grow_group(group, remaining) ==
    IF remaining = <<>>
    THEN [ group |-> group, remaining |-> remaining ]
    ELSE LET r == scan_remaining(group, remaining, Len(remaining), FALSE)
         IN  IF r.changed
             THEN grow_group(r.group, r.remaining)
             ELSE [ group |-> r.group, remaining |-> r.remaining ]

\* WayMerger::group_connected_ways_static
RECURSIVE group_connected_ways_static(_)
group_connected_ways_static(ways) ==
    IF ways = <<>>
    THEN <<>>
    ELSE LET r == grow_group(<< Head(ways) >>, Tail(ways))
         IN  << r.group >> \o group_connected_ways_static(r.remaining)

\* MergedRoad { way_ids, line_strings, tags } of one group of ways
MergedRoad(group) ==
    [ way_ids |-> [ i \in DOMAIN group |-> group[i].way_id ],
      line_strings |-> [ i \in DOMAIN group |-> [ center |-> group[i].center,
                                                  bbox |-> group[i].bbox ] ],
      tags |-> group[1].tags ]

\* WayMerger::merge: the merged roads of all name groups
merge(roads_by_name) ==
    UNION { LET ways == roads_by_name[key]
                groups == IF Len(ways) = 1 THEN << ways >>
                          ELSE group_connected_ways_static(ways)
            IN  { MergedRoad(groups[g]) : g \in DOMAIN groups }
          : key \in DOMAIN roads_by_name }

\* a to_place that notes the number of ways on every road, single ways
\* included, against which C30 is tested
to_place_AlwaysNoted(merged) ==
    LET resolved == SelectSeq(merged.line_strings, LAMBDA ls : IsSome(ls.center))
    IN  IF resolved = <<>>
        THEN None
        ELSE Some([ Place_new("way", merged.way_ids[1], "Street",
                              Unwrap(resolved[1].center))
                    EXCEPT !.bbox = resolved[1].bbox,
                           !.categories =
                               Append(@, << "merged_ways", Len(merged.way_ids) >>) ])

\* MergedRoad::to_place: the centroid of the multi-linestring exists when one
\* of the line strings has coordinates
to_place(merged) ==
    LET resolved == SelectSeq(merged.line_strings, LAMBDA ls : IsSome(ls.center))
    IN  IF resolved = <<>>
        THEN None
        ELSE LET place == [ Place_new("way", merged.way_ids[1], "Street",
                                      Unwrap(resolved[1].center))
                            EXCEPT !.bbox = resolved[1].bbox ]
             IN  Some(IF Len(merged.way_ids) > 1
                      THEN [ place EXCEPT !.categories =
                               Append(@, << "merged_ways", Len(merged.way_ids) >>) ]
                      ELSE place)

\* ------------------------------------------------------------- wikidata
\* the labels Wikidata holds; a binding without xml:lang is stored under
\* "default"
WikidataLabels ==
    ("Q1" :> ("de" :> <<"Kaffee">>)) @@
    ("Q2" :> (("default" :> <<"House">>) @@ ("de" :> <<"Gebaeude">>)))

\* the Q-IDs of a batch: places.iter().filter_map(|p| p.wikidata_id.clone())
batch_qids(places) ==
    { Unwrap(places[i].wikidata_id) : i \in { j \in DOMAIN places : IsSome(places[j].wikidata_id) } }

\* WikidataFetcher::fetch_batch with the outcome of its one chunk: on success
\* every binding of an uncached Q-ID is inserted, on failure nothing changes
fetch_batch(cache, qids, success) ==
    LET to_fetch == { q \in qids : q \notin DOMAIN cache }
        bound == { q \in to_fetch : q \in DOMAIN WikidataLabels }
    IN  IF success
        THEN [ q \in bound |-> WikidataLabels[q] ] @@ cache
        ELSE cache

\* a variant of merge_labels in which the cached label replaces the OSM
\* name, against which C23 is tested
merge_labels_WikidataWins(cache_map, qid, names) ==
    IF qid \in DOMAIN cache_map
    THEN cache_map[qid] @@ names
    ELSE names

\* WikidataFetcher::merge_labels
merge_labels(cache, qid, names) ==
    IF qid \in DOMAIN cache
    THEN names @@ cache[qid]
    ELSE names

\* ------------------------------------------------------------ PBF input
\* OsmObj: Node / Way / Relation with the geometry the resolver gives it
OsmObj(type, id, tags, nodes, center, bbox) ==
    [ type |-> type, id |-> id, tags |-> tags, nodes |-> nodes,
      center |-> center, bbox |-> bbox ]

\* the objects a PBF file of the model is made of, in file order
ObjectUniverse ==
    << OsmObj("node", 1,
              ("name" :> <<"Cafe">>) @@ ("amenity" :> "cafe") @@ ("wikidata" :> "Q1"),
              <<>>, Some(1), None),
       OsmObj("node", 2,
              ("name:de" :> <<"Haus">>) @@ ("shop" :> "books") @@ ("wikidata" :> "Q2"),
              <<>>, Some(2), None),
       OsmObj("way", 1,
              ("name" :> <<"Main", "Street">>) @@ ("highway" :> "residential"),
              <<1, 2>>, Some(1), Some(GeoBbox_new(0, 0, 1, 1))),
       OsmObj("way", 2,
              ("name" :> <<"Main", "Street">>) @@ ("highway" :> "residential"),
              <<2, 3>>, Some(3), Some(GeoBbox_new(1, 0, 2, 1))),
       OsmObj("way", 3,
              ("name" :> <<"Hall">>) @@ ("amenity" :> "townhall") @@ ("building" :> "yes"),
              <<4, 5, 6, 4>>, Some(2), Some(GeoBbox_new(0, 0, 1, 1))),
       OsmObj("relation", 1,
              ("name" :> <<"Aland">>) @@ ("boundary" :> "administrative")
                  @@ ("admin_level" :> "2"),
              <<>>, Some(1), None) >>

\* the strictly increasing index sequences of length n over 1..m
RECURSIVE IncreasingSeqs(_, _)
IncreasingSeqs(n, m) ==
    IF n = 0
    THEN { <<>> }
    ELSE UNION { { Append(s, k) : k \in { j \in 1..m : s = <<>> \/ j > s[Len(s)] } }
                 : s \in IncreasingSeqs(n - 1, m) }

\* the PBF files of the model: up to MaxObjects objects of the universe, each
\* at most once (OSM ids are unique per object type), in file order
PbfInputs ==
    { [ i \in DOMAIN idx |-> ObjectUniverse[idx[i]] ] :
        idx \in UNION { IncreasingSeqs(n, Len(ObjectUniverse)) : n \in 0..MaxObjects } }

\* ----------------------------------------------------------------- state
VARIABLES
    spatial_index,   \* the indexed admin boundaries, in R-tree order
    pbf,             \* the objects of the PBF file, in file order
    merge_roads,     \* args.merge_roads
    pc,              \* position of run_single
    admin_todo,      \* indices of spatial_index.boundaries() not yet visited
    pos,             \* number of objects read by the main pass
    roads_by_name,   \* WayMerger.roads_by_name
    roads_todo,      \* merged roads not yet turned into places
    tx_open,         \* run_single still holds the pipeline sender tx
    chan,            \* extraction -> processing channel
    pl_pc,           \* position of run_processing_pipeline
    pl_buffer,       \* its buffer
    pl_i,            \* index of the place process_buffer is at
    pl_final,        \* process_buffer runs for the final partial batch
    cache,           \* WikidataFetcher.cache
    kv_places,       \* KV table places: id -> data
    kv_admin,        \* KV table admin_areas: id -> data
    kv_failures,     \* number of failed KV upserts so far
    ix_sender_open,  \* BulkIndexer.sender not yet dropped by finish()
    ix_chan,         \* processing -> indexer channel
    ix_pc,           \* position of run_indexer: "run", "ok" or "err"
    ix_buffer,       \* its buffer
    total_indexed,   \* run_indexer total_indexed
    total_errors,    \* run_indexer total_errors
    es_docs,         \* text index: _id -> document
    result,          \* what run_single returned: "none", "ok" or "err"
    sent,            \* history: the places sent into the pipeline channel
    forwarded,       \* history: the places sent into the indexer channel
    kv_failed,       \* history: source ids of the places whose KV upsert failed
    bulk_writes,     \* history: the bulk requests, [ids, ok, errors]
    q                \* the last search conversion: input and result

ingest_vars ==
    << spatial_index, pbf, merge_roads, pc, admin_todo, pos, roads_by_name,
       roads_todo, tx_open, chan, pl_pc, pl_buffer, pl_i, pl_final, cache,
       kv_places, kv_admin, kv_failures, ix_sender_open, ix_chan, ix_pc,
       ix_buffer, total_indexed, total_errors, es_docs, result, sent,
       forwarded, kv_failed, bulk_writes >>

vars == << ingest_vars, q >>

\* the state run_single is in once the channels and both tasks exist
PipelineInit ==
    /\ pc = "admin"
    /\ admin_todo = DOMAIN spatial_index
    /\ pos = 0
    /\ roads_by_name = EmptyMap
    /\ roads_todo = {}
    /\ tx_open = TRUE
    /\ chan = <<>>
    /\ pl_pc = "recv"
    /\ pl_buffer = <<>>
    /\ pl_i = 0
    /\ pl_final = FALSE
    /\ cache = EmptyMap
    /\ kv_places = EmptyMap
    /\ kv_admin = EmptyMap
    /\ kv_failures = 0
    /\ ix_sender_open = TRUE
    /\ ix_chan = <<>>
    /\ ix_pc = "run"
    /\ ix_buffer = <<>>
    /\ total_indexed = 0
    /\ total_errors = 0
    /\ es_docs = EmptyMap
    /\ result = "none"
    /\ sent = <<>>
    /\ forwarded = <<>>
    /\ kv_failed = {}
    /\ bulk_writes = <<>>

NoQuery == [ kind |-> "none" ]

\* the inputs of a run: the admin boundaries, the PBF file, args.merge_roads
Init ==
    /\ spatial_index \in SpatialIndexInputs
    /\ pbf \in PbfInputs
    /\ merge_roads \in BOOLEAN
    /\ PipelineInit
    /\ q = NoQuery

\* ---------------------------------------------------- extraction stage
extract_unchanged ==
    << spatial_index, pbf, merge_roads, pl_pc, pl_buffer, pl_i, pl_final, cache,
       kv_places, kv_admin, kv_failures, ix_sender_open, ix_chan, ix_pc,
       ix_buffer, total_indexed, total_errors, es_docs, result, forwarded,
       kv_failed, bulk_writes, q >>

\* a variant of PipelineSend over a channel that hands out the newest place
\* first, against which C25 is tested
PipelineSend_NewestFirst(place) ==
    /\ Len(chan) < PIPELINE_CAPACITY
    /\ chan' = << place >> \o chan
    /\ sent' = Append(sent, place)

\* tx.send(place).await: waits while the channel is full; the receiver lives
\* until the last sender is dropped, so the send does not fail
PipelineSend(place) ==
    /\ Len(chan) < PIPELINE_CAPACITY
    /\ chan' = Append(chan, place)
    /\ sent' = Append(sent, place)

\* the Place run_single builds for an admin boundary
admin_place(boundary) ==
    LET p0 == Place_new("relation", boundary.area.osm_id, "Admin", Unwrap(boundary.centroid))
        p1 == [ p0 EXCEPT !.name = boundary.area.name,
                          !.wikidata_id = boundary.area.wikidata_id,
                          !.bbox = IF IsSome(boundary_bbox(boundary))
                                   THEN LET e == Unwrap(boundary_bbox(boundary))
                                        IN  Some(GeoBbox_new(e[1], e[2], e[3], e[4]))
                                   ELSE None ]
        p2 == [ p1 EXCEPT !.parent =
                  pip_lookup(spatial_index, p1.center_point, Some(boundary.area.level)) ]
    IN  sanitize(p2)

\* one iteration of "for boundary in spatial_index_ref.boundaries()"
IndexAdminBoundary ==
    /\ pc = "admin"
    /\ \E i \in admin_todo :
        /\ admin_todo' = admin_todo \ {i}
        /\ IF IsSome(spatial_index[i].centroid)
           THEN PipelineSend(admin_place(spatial_index[i]))
           ELSE UNCHANGED << chan, sent >>
    /\ UNCHANGED << pc, pos, roads_by_name, roads_todo, tx_open >>
    /\ UNCHANGED extract_unchanged

\* the loop over the boundaries is over; the main pass starts
StartMainPass ==
    /\ pc = "admin"
    /\ admin_todo = {}
    /\ pc' = "main"
    /\ UNCHANGED << admin_todo, pos, roads_by_name, roads_todo, tx_open, chan, sent >>
    /\ UNCHANGED extract_unchanged

\* the Place of the main pass for an extracted object
main_place(place) ==
    sanitize([ place EXCEPT !.parent = pip_lookup(spatial_index, place.center_point, None) ])

\* one iteration of "for obj_result in reader.iter()"
ProcessObject ==
    /\ pc = "main"
    /\ pos < Len(pbf)
    /\ pos' = pos + 1
    /\ LET obj == pbf[pos + 1]
       IN  IF merge_roads /\ obj.type = "way" /\ is_road_way(obj.tags)
           THEN /\ roads_by_name' =
                     add_road(roads_by_name,
                              RoadWay(obj.id,
                                      [ obj.tags EXCEPT !["name"] = normalize(@) ],
                                      obj.nodes, obj.center, obj.bbox))
                /\ UNCHANGED << chan, sent >>
           ELSE /\ UNCHANGED roads_by_name
                /\ IF IsSome(extract_place(obj))
                   THEN PipelineSend(main_place(Unwrap(extract_place(obj))))
                   ELSE UNCHANGED << chan, sent >>
    /\ UNCHANGED << pc, admin_todo, roads_todo, tx_open >>
    /\ UNCHANGED extract_unchanged

\* the main pass is over: merger.merge() when road merging is enabled
MergeRoads ==
    /\ pc = "main"
    /\ pos = Len(pbf)
    /\ pc' = "roads"
    /\ roads_todo' = IF merge_roads THEN merge(roads_by_name) ELSE {}
    /\ UNCHANGED << admin_todo, pos, roads_by_name, tx_open, chan, sent >>
    /\ UNCHANGED extract_unchanged

\* the Place run_single builds for a merged road
road_place(merged) ==
    main_place(extract_tags(Unwrap(to_place(merged)), merged.tags))

\* one iteration of "for merged_road in merged_roads"
SendMergedRoad ==
    /\ pc = "roads"
    /\ \E merged \in roads_todo :
        /\ roads_todo' = roads_todo \ {merged}
        /\ IF IsSome(to_place(merged))
           THEN PipelineSend(road_place(merged))
           ELSE UNCHANGED << chan, sent >>
    /\ UNCHANGED << pc, admin_todo, pos, roads_by_name, tx_open >>
    /\ UNCHANGED extract_unchanged

\* drop(tx)
DropTx ==
    /\ pc = "roads"
    /\ roads_todo = {}
    /\ tx_open' = FALSE
    /\ pc' = "await_pipeline"
    /\ UNCHANGED << admin_todo, pos, roads_by_name, roads_todo, chan, sent >>
    /\ UNCHANGED extract_unchanged

\* ---------------------------------------------------- processing stage
pipeline_unchanged ==
    << spatial_index, pbf, merge_roads, pc, admin_todo, pos, roads_by_name,
       roads_todo, tx_open, ix_sender_open, ix_pc, ix_buffer, total_indexed,
       total_errors, es_docs, result, sent, bulk_writes, q >>

\* process_buffer has returned: buffer.clear() in the loop, or the task ends
\* after the final batch
EndBatch ==
    /\ pl_buffer' = <<>>
    /\ pl_i' = 0
    /\ pl_pc' = IF pl_final THEN "done" ELSE "recv"

\* rx.recv() returns a place: buffer.push, and a full buffer is processed
PipelineRecv ==
    /\ pl_pc = "recv"
    /\ chan /= <<>>
    /\ chan' = Tail(chan)
    /\ pl_buffer' = Append(pl_buffer, Head(chan))
    /\ pl_pc' = IF Len(pl_buffer') >= BatchSize THEN "fetch" ELSE "recv"
    /\ UNCHANGED << pl_i, pl_final, cache, kv_places, kv_admin, kv_failures,
                    ix_chan, forwarded, kv_failed >>
    /\ UNCHANGED pipeline_unchanged

\* a variant of the processing loop that returns on channel close without
\* processing the remaining partial buffer, against which C3 is tested
PipelineClosed_NoFinalBatch ==
    /\ pl_pc = "recv"
    /\ chan = <<>>
    /\ ~tx_open
    /\ pl_pc' = "done"
    /\ pl_buffer' = <<>>
    /\ UNCHANGED << chan, pl_i, pl_final, cache, kv_places, kv_admin, kv_failures,
                    ix_chan, forwarded, kv_failed >>
    /\ UNCHANGED pipeline_unchanged

\* rx.recv() returns None: the channel is closed and drained
PipelineClosed ==
    /\ pl_pc = "recv"
    /\ chan = <<>>
    /\ ~tx_open
    /\ IF pl_buffer /= <<>>
       THEN pl_pc' = "fetch" /\ pl_final' = TRUE
       ELSE pl_pc' = "done" /\ UNCHANGED pl_final
    /\ UNCHANGED << chan, pl_buffer, pl_i, cache, kv_places, kv_admin, kv_failures,
                    ix_chan, forwarded, kv_failed >>
    /\ UNCHANGED pipeline_unchanged

\* process_buffer step 1: fetch_batch for the Q-IDs of the batch, then
\* merge_labels into every place that has a Q-ID
ProcessFetch ==
    /\ pl_pc = "fetch"
    /\ LET qids == batch_qids(pl_buffer)
       IN  IF qids = {}
           THEN UNCHANGED << cache, pl_buffer >>
           ELSE \E success \in BOOLEAN :
                   /\ cache' = fetch_batch(cache, qids, success)
                   /\ pl_buffer' =
                        [ i \in DOMAIN pl_buffer |->
                            IF IsSome(pl_buffer[i].wikidata_id)
                            THEN [ pl_buffer[i] EXCEPT !.name =
                                     merge_labels(cache', Unwrap(pl_buffer[i].wikidata_id), @) ]
                            ELSE pl_buffer[i] ]
    /\ pl_pc' = "upsert"
    /\ pl_i' = 1
    /\ UNCHANGED << chan, pl_final, kv_places, kv_admin, kv_failures, ix_chan,
                    forwarded, kv_failed >>
    /\ UNCHANGED pipeline_unchanged

\* the parents upsert_admin_areas writes, in its order: the filled slots whose
\* entry has an id
parents_with_id(place) ==
    LET filled == SelectSeq(AdminLevel_all, LAMBDA l : IsSome(place.parent[l]))
        entries == [ i \in DOMAIN filled |-> Unwrap(place.parent[filled[i]]) ]
    IN  SelectSeq(entries, LAMBDA e : IsSome(e.id))

\* the JSON upsert_admin_areas stores for a parent: serde_json::to_string(parent)
admin_json(parent) == Serialize_AdminEntry(parent)

\* a variant of upsert_admin_areas that writes the first parent only, against
\* which C5 is tested
upsert_admin_areas_FirstOnly(table, place, n) ==
    LET parents == parents_with_id(place)
    IN  IF n = 0 THEN table
        ELSE MapInsert(table, source_id_of("relation", Unwrap(parents[1].id)),
                       admin_json(parents[1]))

\* upsert_admin_areas, the first n parents written
upsert_admin_areas(table, place, n) ==
    LET parents == parents_with_id(place)
    IN  [ id \in { source_id_of("relation", Unwrap(parents[i].id)) : i \in 1..n } |->
            LET last == CHOOSE i \in 1..n :
                          /\ source_id_of("relation", Unwrap(parents[i].id)) = id
                          /\ \A j \in (i + 1)..n :
                               source_id_of("relation", Unwrap(parents[j].id)) /= id
            IN  admin_json(parents[last]) ] @@ table

\* a process_buffer that logs a failed upsert and goes on to send the place
ProcessUpsert_SendAnyway ==
    /\ pl_pc = "upsert"
    /\ LET place == pl_buffer[pl_i]
           n == Len(parents_with_id(place))
       IN  \/ /\ kv_admin' = upsert_admin_areas(kv_admin, place, n)
              /\ kv_places' = MapInsert(kv_places, place.source_id, from_place(place))
              /\ UNCHANGED << kv_failures, kv_failed >>
           \/ /\ kv_failures < MaxKvFailures
              /\ \E k \in 1..(n + 1) :
                    kv_admin' = upsert_admin_areas(kv_admin, place, k - 1)
              /\ kv_failures' = kv_failures + 1
              /\ kv_failed' = kv_failed \cup { place.source_id }
              /\ UNCHANGED kv_places
    /\ pl_pc' = "send"
    /\ UNCHANGED << pl_buffer, pl_i, chan, pl_final, cache, ix_chan, forwarded >>
    /\ UNCHANGED pipeline_unchanged

\* process_buffer step 2 for one place, the KV part: upsert_admin_areas and
\* upsert_place.  Any of the upsert calls may fail; the error leaves
\* process_buffer at once ("?"), with the earlier writes done.
ProcessUpsert ==
    /\ pl_pc = "upsert"
    /\ LET place == pl_buffer[pl_i]
           n == Len(parents_with_id(place))
       IN  \/ /\ kv_admin' = upsert_admin_areas(kv_admin, place, n)
              /\ kv_places' = MapInsert(kv_places, place.source_id, from_place(place))
              /\ pl_pc' = "send"
              /\ UNCHANGED << pl_buffer, pl_i, kv_failures, kv_failed >>
           \/ /\ kv_failures < MaxKvFailures
              /\ \E k \in 1..(n + 1) :
                    kv_admin' = upsert_admin_areas(kv_admin, place, k - 1)
              /\ kv_failures' = kv_failures + 1
              /\ kv_failed' = kv_failed \cup { place.source_id }
              /\ EndBatch
              /\ UNCHANGED kv_places
    /\ UNCHANGED << chan, pl_final, cache, ix_chan, forwarded >>
    /\ UNCHANGED pipeline_unchanged

\* process_buffer step 2 for one place, indexer_tx.send(place.clone()).await:
\* waits while the channel is full, fails once the receiver is gone
ProcessSend ==
    /\ pl_pc = "send"
    /\ IF ix_pc = "run"
       THEN /\ Len(ix_chan) < BatchSize * INDEXER_CAPACITY_FACTOR
            /\ ix_chan' = Append(ix_chan, pl_buffer[pl_i])
            /\ forwarded' = Append(forwarded, pl_buffer[pl_i])
            /\ IF pl_i = Len(pl_buffer)
               THEN EndBatch
               ELSE /\ pl_i' = pl_i + 1
                    /\ pl_pc' = "upsert"
                    /\ UNCHANGED pl_buffer
       ELSE /\ EndBatch
            /\ UNCHANGED << ix_chan, forwarded >>
    /\ UNCHANGED << chan, pl_final, cache, kv_places, kv_admin, kv_failures, kv_failed >>
    /\ UNCHANGED pipeline_unchanged

\* -------------------------------------------------------- bulk indexer
indexer_unchanged ==
    << spatial_index, pbf, merge_roads, pc, admin_todo, pos, roads_by_name,
       roads_todo, tx_open, chan, pl_pc, pl_buffer, pl_i, pl_final, cache,
       kv_places, kv_admin, kv_failures, ix_sender_open, result, sent,
       forwarded, kv_failed, q >>

\* serde serialization of a Place: the parents in their text-index form
Serialize_Place(place) ==
    [ place EXCEPT !.parent =
        [ l \in { k \in AdminLevels : IsSome(place.parent[k]) } |->
            Serialize_AdminEntry(Unwrap(place.parent[l])) ] ]

\* a variant of bulk_index that stores every document under an id of its own
\* instead of its source_id, against which C27 is tested
bulk_index_OwnId(docs_before, buffer, failed) ==
    [ id \in { << buffer[i].source_id[1], buffer[i].source_id[2] + 100 >> :
                  i \in DOMAIN buffer \ failed } |->
        Serialize_Place(buffer[CHOOSE i \in DOMAIN buffer \ failed :
                                   buffer[i].source_id[2] + 100 = id[2]
                                   /\ buffer[i].source_id[1] = id[1]]) ] @@ docs_before

\* what the text index holds after a bulk request in which the items at the
\* positions failed were rejected: "index" under _id = source_id
bulk_index(docs_before, buffer, failed) ==
    LET written == { i \in DOMAIN buffer : i \notin failed }
        ids == { buffer[i].source_id : i \in written }
    IN  [ id \in ids |->
            LET last == CHOOSE i \in written :
                          /\ buffer[i].source_id = id
                          /\ \A j \in written : buffer[j].source_id = id => j <= i
            IN  Serialize_Place(buffer[last]) ] @@ docs_before

\* flush() returned Ok((count, batch_errors))
flush_count(buffer, failed) == << Len(buffer), Cardinality(failed) >>

\* a variant of flush's caller that logs a failed bulk request and carries on
\* with the next batch (what the comment at bulk.rs:73-76 considers), against
\* which C2 is tested
Flush_LogAndContinue(buffer, chan_after, next_pc) ==
    \/ /\ ix_pc' = next_pc
       /\ ix_chan' = chan_after
       /\ ix_buffer' = <<>>
       /\ bulk_writes' = Append(bulk_writes,
                                [ ids |-> [ i \in DOMAIN buffer |-> buffer[i].source_id ],
                                  ok |-> FALSE, errors |-> 0 ])
       /\ UNCHANGED << total_indexed, total_errors, es_docs >>
    \/ \E failed \in SUBSET (DOMAIN buffer) :
         /\ es_docs' = bulk_index(es_docs, buffer, failed)
         /\ total_indexed' = total_indexed + flush_count(buffer, failed)[1]
         /\ total_errors' = total_errors + flush_count(buffer, failed)[2]
         /\ ix_buffer' = <<>>
         /\ ix_chan' = chan_after
         /\ ix_pc' = next_pc
         /\ bulk_writes' = Append(bulk_writes,
                                  [ ids |-> [ i \in DOMAIN buffer |-> buffer[i].source_id ],
                                    ok |-> TRUE, errors |-> Cardinality(failed) ])

\* flush(&client, &mut buffer) as run_indexer uses it: the bulk request fails
\* as a whole and the task returns the error (its receiver is dropped), or the
\* text index answers, reports the items at the positions failed, and the
\* task goes on at next_pc
Flush(buffer, chan_after, next_pc) ==
    \/ /\ ix_pc' = "err"
       /\ ix_chan' = <<>>
       /\ ix_buffer' = <<>>
       /\ bulk_writes' = Append(bulk_writes,
                                [ ids |-> [ i \in DOMAIN buffer |-> buffer[i].source_id ],
                                  ok |-> FALSE, errors |-> 0 ])
       /\ UNCHANGED << total_indexed, total_errors, es_docs >>
    \/ \E failed \in SUBSET (DOMAIN buffer) :
         /\ es_docs' = bulk_index(es_docs, buffer, failed)
         /\ total_indexed' = total_indexed + flush_count(buffer, failed)[1]
         /\ total_errors' = total_errors + flush_count(buffer, failed)[2]
         /\ ix_buffer' = <<>>
         /\ ix_chan' = chan_after
         /\ ix_pc' = next_pc
         /\ bulk_writes' = Append(bulk_writes,
                                  [ ids |-> [ i \in DOMAIN buffer |-> buffer[i].source_id ],
                                    ok |-> TRUE, errors |-> Cardinality(failed) ])

\* rx.recv() returns a place: buffer.push, and a full buffer is flushed
IndexerRecv ==
    /\ ix_pc = "run"
    /\ ix_chan /= <<>>
    /\ LET buffer == Append(ix_buffer, Head(ix_chan))
       IN  IF Len(buffer) >= BatchSize
           THEN Flush(buffer, Tail(ix_chan), "run")
           ELSE /\ ix_buffer' = buffer
                /\ ix_chan' = Tail(ix_chan)
                /\ UNCHANGED << ix_pc, total_indexed, total_errors, es_docs, bulk_writes >>
    /\ UNCHANGED indexer_unchanged

\* rx.recv() returns None: every sender is dropped and the channel is drained;
\* the rest of the buffer is flushed and the task returns
IndexerClosed ==
    /\ ix_pc = "run"
    /\ ix_chan = <<>>
    /\ ~ix_sender_open
    /\ pl_pc = "done"
    /\ IF ix_buffer /= <<>>
       THEN Flush(ix_buffer, ix_chan, "ok")
       ELSE /\ ix_pc' = "ok"
            /\ UNCHANGED << ix_chan, ix_buffer, total_indexed, total_errors, es_docs,
                            bulk_writes >>
    /\ UNCHANGED indexer_unchanged

\* ------------------------------------------------- end of run_single
finish_unchanged ==
    << spatial_index, pbf, merge_roads, admin_todo, pos, roads_by_name,
       roads_todo, tx_open, chan, pl_pc, pl_buffer, pl_i, pl_final, cache,
       kv_places, kv_admin, kv_failures, ix_chan, ix_pc, ix_buffer,
       total_indexed, total_errors, es_docs, sent, forwarded, kv_failed,
       bulk_writes, q >>

\* pipeline_handle.await returned; indexer.finish() drops its sender
FinishDropSender ==
    /\ pc = "await_pipeline"
    /\ pl_pc = "done"
    /\ ix_sender_open' = FALSE
    /\ pc' = "await_indexer"
    /\ UNCHANGED result
    /\ UNCHANGED finish_unchanged

\* the value finish() returns: the result of the indexer task
finish_result == IF ix_pc = "ok" THEN Some(<< total_indexed, total_errors >>) ELSE None

\* self.handle.await? in finish() and "?" in run_single
FinishAwait ==
    /\ pc = "await_indexer"
    /\ ix_pc \in {"ok", "err"}
    /\ pc' = "done"
    /\ result' = IF IsSome(finish_result) THEN "ok" ELSE "err"
    /\ UNCHANGED ix_sender_open
    /\ UNCHANGED finish_unchanged

Next ==
    \/ IndexAdminBoundary
    \/ StartMainPass
    \/ ProcessObject
    \/ MergeRoads
    \/ SendMergedRoad
    \/ DropTx
    \/ PipelineRecv
    \/ PipelineClosed
    \/ ProcessFetch
    \/ ProcessUpsert
    \/ ProcessSend
    \/ IndexerRecv
    \/ IndexerClosed
    \/ FinishDropSender
    \/ FinishAwait

Spec == Init /\ [][Next]_vars

\* ----------------------------------------------------------- query side
\* the AdminEntry map execute_search_internal parses from the KV admin rows:
\* rows that do not deserialize as AdminEntryScylla are left out
parsed_admin_map(admin_rows) ==
    [ k \in { id \in DOMAIN admin_rows : IsSome(Deserialize_AdminEntryScylla(admin_rows[id])) } |->
        from_scylla(Unwrap(Deserialize_AdminEntryScylla(admin_rows[k]))) ]

\* map.get(id) for an Option id
admin_get(id, admin_map) ==
    IF IsSome(id) /\ Unwrap(id) \in DOMAIN admin_map THEN Some(admin_map[Unwrap(id)]) ELSE None

\* a resolve_admin_name that prefers the default name to the requested
\* language, against which C32 is tested
resolve_admin_name_DefaultFirst(id, admin_map, lang) ==
    LET entry == admin_get(id, admin_map)
    IN  IF ~IsSome(entry) THEN None
        ELSE IF "default" \in DOMAIN Unwrap(entry).names
        THEN Some(Unwrap(entry).names["default"])
        ELSE IF IsSome(lang) /\ Unwrap(lang) \in DOMAIN Unwrap(entry).names
        THEN Some(Unwrap(entry).names[Unwrap(lang)])
        ELSE Unwrap(entry).name

\* resolve_admin_name
resolve_admin_name(id, admin_map, lang) ==
    LET entry == admin_get(id, admin_map)
    IN  IF ~IsSome(entry) THEN None
        ELSE IF IsSome(lang) /\ Unwrap(lang) \in DOMAIN Unwrap(entry).names
        THEN Some(Unwrap(entry).names[Unwrap(lang)])
        ELSE IF "default" \in DOMAIN Unwrap(entry).names
        THEN Some(Unwrap(entry).names["default"])
        ELSE Unwrap(entry).name

\* resolve_admin_names
resolve_admin_names(id, admin_map) ==
    LET entry == admin_get(id, admin_map)
    IN  IF IsSome(entry) THEN Some(Unwrap(entry).names) ELSE None

\* a variant of resolve_if_larger that also fills a slot of the result's own
\* rank, against which C10 is tested
resolve_if_larger_OrEqual(layer_variant, id, place_rank, admin_map, preferred_lang) ==
    IF get_layer_rank(layer_variant) >= place_rank
    THEN resolve_admin_name(id, admin_map, preferred_lang)
    ELSE None

\* the closure resolve_if_larger of place_to_search_result(_v2)
resolve_if_larger(layer_variant, id, place_rank, admin_map, preferred_lang) ==
    IF get_layer_rank(layer_variant) > place_rank
    THEN resolve_admin_name(id, admin_map, preferred_lang)
    ELSE None

\* the closure resolve_names_if_larger of place_to_search_result_v2
resolve_names_if_larger(layer_variant, id, place_rank, admin_map) ==
    IF get_layer_rank(layer_variant) > place_rank
    THEN resolve_admin_names(id, admin_map)
    ELSE None

\* the display name of a result
display_name(place, preferred_lang) ==
    IF IsSome(preferred_lang) /\ Unwrap(preferred_lang) \in DOMAIN place.name
    THEN place.name[Unwrap(preferred_lang)]
    ELSE IF "default" \in DOMAIN place.name
    THEN place.name["default"]
    ELSE IF DOMAIN place.name /= {}
    THEN place.name[CHOOSE k \in DOMAIN place.name : TRUE]
    ELSE <<>>

\* the parent slots of a search result; the Layer variant and the hierarchy
\* slot of each carry the same name
ResultSlots == { "Country", "Region", "County", "Locality", "Neighbourhood" }

\* place_to_search_result: the Properties of the result
place_to_search_result(place, score, preferred_lang, admin_map) ==
    [ id |-> place.source_id,
      layer |-> place.layer,
      name |-> display_name(place, preferred_lang),
      names |-> place.name,
      parents |-> [ slot \in ResultSlots |->
                      resolve_if_larger(slot, place.parent[slot], get_layer_rank(place.layer),
                                        admin_map, preferred_lang) ],
      categories |-> place.categories,
      confidence |-> score ]

\* place_to_search_result_v2: the PropertiesV2 of the result
place_to_search_result_v2(place, score, preferred_lang, admin_map) ==
    [ id |-> place.source_id,
      layer |-> place.layer,
      name |-> display_name(place, preferred_lang),
      names |-> place.name,
      parents |-> [ slot \in ResultSlots |->
                      resolve_if_larger(slot, place.parent[slot], get_layer_rank(place.layer),
                                        admin_map, preferred_lang) ],
      parent_names |-> [ slot \in ResultSlots |->
                      resolve_names_if_larger(slot, place.parent[slot],
                                              get_layer_rank(place.layer), admin_map) ],
      categories |-> place.categories,
      confidence |-> score ]

\* the AdminEntry rows of the query inputs: relation/<k> for the k-th level
QueryEntry(k) ==
    [ name |-> Some(<< AdminLevel_all[k] >>), abbr |-> None, id |-> Some(k), bbox |-> None,
      names |-> ("default" :> << AdminLevel_all[k] >>) @@ ("de" :> << AdminLevel_all[k], "de" >>) ]

\* the admin maps of the query inputs: every row present, or the County and
\* Locality rows missing
AdminMapInputs ==
    { [ id \in { source_id_of("relation", k) : k \in ks } |-> QueryEntry(id[2]) ]
        : ks \in { 1..9, (1..9) \ {5, 7} } }

\* the hydrated places of the query inputs: any layer, any set of referenced
\* parents among the result slots
QueryPlace(layer, filled) ==
    from_place(
        [ Place_new("node", 7, layer, 1) EXCEPT
            !.name = ("default" :> <<"Cafe">>),
            !.parent = [ l \in AdminLevels |->
                           IF l \in filled THEN Some(QueryEntry(LevelOrd(l))) ELSE None ] ])

\* a v1 search result is built for the hydrated place of a request
SearchV1 ==
    /\ q = NoQuery
    /\ \E layer \in Layers, filled \in SUBSET ResultSlots, admin_map \in AdminMapInputs,
          lang \in { None, Some("de") } :
         q' = [ kind |-> "v1", place |-> QueryPlace(layer, filled), lang |-> lang,
                admin_map |-> admin_map,
                result |-> place_to_search_result(QueryPlace(layer, filled), 1, lang, admin_map) ]
    /\ UNCHANGED ingest_vars

\* a v2 search result is built for the hydrated place of a request
SearchV2 ==
    /\ q = NoQuery
    /\ \E layer \in Layers, filled \in SUBSET ResultSlots, admin_map \in AdminMapInputs,
          lang \in { None, Some("de") } :
         q' = [ kind |-> "v2", place |-> QueryPlace(layer, filled), lang |-> lang,
                admin_map |-> admin_map,
                result |-> place_to_search_result_v2(QueryPlace(layer, filled), 1, lang,
                                                     admin_map) ]
    /\ UNCHANGED ingest_vars

\* ------------------------------------------------ query side: hydration
\* the ids the text index can return
HitIds == 1..MaxHits

\* the hit lists of the requests: distinct ids in the order of the text index
HitLists ==
    { s \in UNION { [ 1..n -> HitIds ] : n \in 0..MaxHits } :
        \A i, j \in DOMAIN s : s[i] = s[j] => i = j }

\* the _score of the hit at position i of n: the text index sorts by score
hit_score(n, i) == 10 * (n - i + 1)

\* the NormalizedPlace stored for hit id k: a venue at cell ((k - 1) % 3) + 1
\* whose country is relation/1; the second place has importance 1.0 (100 %)
StoredPlace(k) ==
    ("importance" :> (IF k = 2 THEN Some(100) ELSE None)) @@
    from_place(
        [ Place_new("node", k, "Venue", ((k - 1) % 3) + 1) EXCEPT
            !.name = ("default" :> <<"Cafe", k>>),
            !.parent = [ l \in AdminLevels |->
                           IF l = "Country" THEN Some(QueryEntry(1)) ELSE None ] ])

\* the KV admin rows of the query inputs
StoredAdminRows ==
    [ id \in { source_id_of("relation", k) : k \in 1..9 } |-> to_scylla_json(QueryEntry(id[2])) ]

\* collect_admin_ids
collect_admin_ids(place) ==
    { Unwrap(place.parent[l]) : l \in { k \in AdminLevels : IsSome(place.parent[k]) } }

\* a variant of the hydration loop that stops at the first hit without a KV
\* record, against which C11 is tested
hydrate_StopAtMiss(hits, kv_table) ==
    LET misses == { i \in DOMAIN hits : hits[i].id \notin DOMAIN kv_table }
        stop == IF misses = {} THEN Len(hits) + 1
                ELSE CHOOSE i \in misses : \A j \in misses : i <= j
    IN  [ i \in 1..(stop - 1) |-> << kv_table[hits[i].id], hits[i].score >> ]

\* the hydration loop: get_place for every hit, a hit without a record (or
\* whose fetch failed) is left out; the pairs (place, score) in hit order
hydrate(hits, kv_table) ==
    LET found == SelectSeq(hits, LAMBDA h : h.id \in DOMAIN kv_table)
    IN  [ i \in DOMAIN found |-> << kv_table[found[i].id], found[i].score >> ]

\* haversine_distance_km in units of the 50 km scale: the cells lie 50 km apart
distance_cells(a, b) == IF a >= b THEN a - b ELSE b - a

\* decay = exp(-(d * d) / (2 * scale * scale)) in per cent, for d = 0, 50, 100 km
decay_pct(d) == CASE d = 0 -> 100 [] d = 1 -> 61 [] OTHER -> 14

\* final_factor = decay + (1 - decay) * importance, in per cent
final_factor(place, focus_point) ==
    LET decay == decay_pct(distance_cells(focus_point, place.center_point))
        importance == IF IsSome(place.importance) THEN Unwrap(place.importance) ELSE 0
    IN  decay + ((100 - decay) * importance) \div 100

\* sort_by(|a, b| b.1.partial_cmp(&a.1)): a stable sort by descending score;
\* InsertByScore puts e behind every element whose score is not smaller
InsertByScore(sorted, e) ==
    LET ahead == { i \in DOMAIN sorted : sorted[i][2] >= e[2] }
        k == IF ahead = {} THEN 0 ELSE CHOOSE i \in ahead : \A j \in ahead : j <= i
    IN  [ i \in 1..(Len(sorted) + 1) |->
            IF i <= k THEN sorted[i] ELSE IF i = k + 1 THEN e ELSE sorted[i - 1] ]

RECURSIVE sort_by_score_desc(_)
sort_by_score_desc(seq) ==
    IF seq = <<>> THEN <<>>
    ELSE InsertByScore(sort_by_score_desc(SubSeq(seq, 1, Len(seq) - 1)), seq[Len(seq)])

\* focus scoring: every score is multiplied by final_factor and the list is
\* sorted again; without a focus point the list is left as it is
focus_rescore(places, focus) ==
    IF ~IsSome(focus) THEN places
    ELSE sort_by_score_desc(
             [ i \in DOMAIN places |->
                 << places[i][1], places[i][2] * final_factor(places[i][1], Unwrap(focus)) >> ])

\* get_admin_areas followed by the parse of the rows
fetched_admin_map(admin_ids) ==
    parsed_admin_map([ id \in admin_ids \cap DOMAIN StoredAdminRows |-> StoredAdminRows[id] ])

\* execute_search_internal and execute_search: the response of a request
\* whose text-index call returned hits (es_ok) or failed, and whose admin
\* batch fetch succeeded (admin_ok) or failed
execute_search(hits, kv_table, focus, lang, es_ok, admin_ok) ==
    LET normalized_places == focus_rescore(hydrate(hits, kv_table), focus)
        admin_ids == UNION { collect_admin_ids(normalized_places[i][1]) :
                               i \in DOMAIN normalized_places }
        admin_map == fetched_admin_map(admin_ids)
    IN  IF ~es_ok \/ (admin_ids /= {} /\ ~admin_ok)
        THEN [ status |-> "err", results |-> <<>> ]
        ELSE [ status |-> "ok",
               results |-> [ i \in DOMAIN normalized_places |->
                               place_to_search_result(normalized_places[i][1],
                                                      normalized_places[i][2],
                                                      lang, admin_map) ] ]

\* execute_reverse: no score, no focus scoring, no language
execute_reverse(hits, kv_table, es_ok, admin_ok) ==
    LET normalized_places == hydrate(hits, kv_table)
        admin_ids == UNION { collect_admin_ids(normalized_places[i][1]) :
                               i \in DOMAIN normalized_places }
        admin_map == fetched_admin_map(admin_ids)
    IN  IF ~es_ok \/ (admin_ids /= {} /\ ~admin_ok)
        THEN [ status |-> "err", results |-> <<>> ]
        ELSE [ status |-> "ok",
               results |-> [ i \in DOMAIN normalized_places |->
                               place_to_search_result(normalized_places[i][1], 1,
                                                      None, admin_map) ] ]

\* the hits of a response body and the KV places table of a request
RequestHits(ids) == [ i \in DOMAIN ids |-> [ id |-> source_id_of("node", ids[i]),
                                             score |-> hit_score(Len(ids), i) ] ]
RequestKv(present) == [ id \in { source_id_of("node", k) : k \in present } |-> StoredPlace(id[2]) ]

\* a forward search request is answered
ExecuteSearch ==
    /\ q = NoQuery
    /\ \E ids \in HitLists, present \in SUBSET HitIds,
          focus \in { None } \cup { Some(c) : c \in Cells }, es_ok, admin_ok \in BOOLEAN :
         q' = [ kind |-> "search", hits |-> RequestHits(ids), kv |-> RequestKv(present),
                focus |-> focus, es_ok |-> es_ok, admin_ok |-> admin_ok,
                response |-> execute_search(RequestHits(ids), RequestKv(present), focus,
                                            None, es_ok, admin_ok) ]
    /\ UNCHANGED ingest_vars

\* a reverse geocoding request is answered
ExecuteReverse ==
    /\ q = NoQuery
    /\ \E ids \in HitLists, present \in SUBSET HitIds, es_ok, admin_ok \in BOOLEAN :
         q' = [ kind |-> "reverse", hits |-> RequestHits(ids), kv |-> RequestKv(present),
                focus |-> None, es_ok |-> es_ok, admin_ok |-> admin_ok,
                response |-> execute_reverse(RequestHits(ids), RequestKv(present),
                                             es_ok, admin_ok) ]
    /\ UNCHANGED ingest_vars

\* the query service has no ingest running: the ingest variables stay at
\* their initial values over an empty input
InitQuery ==
    /\ spatial_index = <<>>
    /\ pbf = <<>>
    /\ merge_roads = FALSE
    /\ PipelineInit
    /\ q = NoQuery

NextQuery ==
    \/ SearchV1
    \/ SearchV2
    \/ ExecuteSearch
    \/ ExecuteReverse

SpecQuery == InitQuery /\ [][NextQuery]_vars

\* ------------------------------------------- query side: display names
\* the languages of the name maps and of the requests; "it" is in no map
NameLangs == { "default", "de", "fr" }
RequestLangs == { None, Some("de"), Some("fr"), Some("it") }

\* the country of the displayed place as the boundary extractor names it (at
\* least one name), and the AdminEntry the ingest builds from it
DisplayArea(langs) ==
    AdminArea(1, "Country", [ l \in langs |-> << "Aland", l >> ], None, None, None)
DisplayEntry(langs) == AdminEntry_from_area(DisplayArea(langs))

\* the KV admin row of the country: in the form of to_scylla_json, or in the
\* form upsert_admin_areas writes (serde_json::to_string of the AdminEntry)
DisplayRows(langs, form) ==
    source_id_of("relation", 1) :>
        (IF form = "scylla" THEN to_scylla_json(DisplayEntry(langs))
         ELSE Serialize_AdminEntry(DisplayEntry(langs)))

\* the hydrated place of the request: a venue of that country
DisplayPlace(place_langs, langs) ==
    from_place(
        [ Place_new("node", 7, "Venue", 1) EXCEPT
            !.name = [ l \in place_langs |-> << "Cafe", l >> ],
            !.parent = [ l \in AdminLevels |->
                           IF l = "Country" THEN Some(DisplayEntry(langs)) ELSE None ] ])

\* a v1 result is built from the place and the parsed admin rows
DisplayV1 ==
    /\ q = NoQuery
    /\ \E place_langs \in SUBSET NameLangs, langs \in (SUBSET NameLangs) \ { {} },
          form \in { "scylla", "ingest" }, lang \in RequestLangs :
         LET admin_map == parsed_admin_map(DisplayRows(langs, form))
         IN  q' = [ kind |-> "display", place |-> DisplayPlace(place_langs, langs),
                    lang |-> lang, admin_map |-> admin_map,
                    result |-> place_to_search_result(DisplayPlace(place_langs, langs), 1,
                                                      lang, admin_map) ]
    /\ UNCHANGED ingest_vars

\* a v2 result is built from the place and the parsed admin rows
DisplayV2 ==
    /\ q = NoQuery
    /\ \E place_langs \in SUBSET NameLangs, langs \in (SUBSET NameLangs) \ { {} },
          form \in { "scylla", "ingest" }, lang \in RequestLangs :
         LET admin_map == parsed_admin_map(DisplayRows(langs, form))
         IN  q' = [ kind |-> "display_v2", place |-> DisplayPlace(place_langs, langs),
                    lang |-> lang, admin_map |-> admin_map,
                    result |-> place_to_search_result_v2(DisplayPlace(place_langs, langs), 1,
                                                         lang, admin_map) ]
    /\ UNCHANGED ingest_vars

NextDisplay == DisplayV1 \/ DisplayV2

SpecDisplay == InitQuery /\ [][NextDisplay]_vars

\* ------------------------------------------------------- PIP lookups
\* the boundaries of the PIP inputs, after test_country_enforcement: two
\* overlapping countries that carry their code as abbr, two regions that
\* carry a country code, and an enclave locality inside a larger locality
PipBoundaryUniverse ==
    << AdminBoundary(AdminArea(11, "Country", ("default" :> <<"US">>), Some("US"), None, None),
                     {1, 2, 3}, 9, Some(1), <<0, 0, 3, 3>>),
       AdminBoundary(AdminArea(12, "Country", ("default" :> <<"CA">>), Some("CA"), None, None),
                     {2, 3}, 4, Some(2), <<1, 0, 3, 3>>),
       AdminBoundary(AdminArea(13, "Region", ("default" :> <<"ON">>), None, Some("CA"), None),
                     {1, 2}, 2, Some(2), <<0, 0, 2, 1>>),
       AdminBoundary(AdminArea(14, "Region", ("default" :> <<"NY">>), None, Some("US"), None),
                     {3}, 1, Some(3), <<2, 0, 3, 1>>),
       AdminBoundary(AdminArea(15, "Locality", ("default" :> <<"E">>), None, Some("US"), None),
                     {2}, 1, Some(2), <<1, 0, 2, 1>>),
       AdminBoundary(AdminArea(16, "Locality", ("default" :> <<"L">>), None, None, None),
                     {1, 2, 3}, 6, Some(2), <<0, 0, 3, 2>>) >>

\* the spatial indexes of the PIP inputs: up to MaxBoundaries boundaries in
\* any order (the R-tree yields the boundaries of a point in no fixed order)
PipIndexInputs ==
    { [ i \in DOMAIN s |-> PipBoundaryUniverse[s[i]] ] :
        s \in { t \in UNION { [ 1..n -> DOMAIN PipBoundaryUniverse ] : n \in 0..MaxBoundaries } :
                  \A i, j \in DOMAIN t : t[i] = t[j] => i = j } }

\* the index is built and no object has been read yet
InitPip ==
    /\ spatial_index \in PipIndexInputs
    /\ pbf = <<>>
    /\ merge_roads = FALSE
    /\ PipelineInit
    /\ q = NoQuery

\* PipService::lookup is called for a point
PipLookup ==
    /\ q = NoQuery
    /\ \E point \in Cells, limit_level \in { None } \cup { Some(l) : l \in AdminLevels } :
         q' = [ kind |-> "pip", point |-> point, limit |-> limit_level,
                hierarchy |-> pip_lookup(spatial_index, point, limit_level) ]
    /\ UNCHANGED ingest_vars

\* run_single builds the Place of an admin boundary of the index
PipAdminPlace ==
    /\ q = NoQuery
    /\ \E i \in DOMAIN spatial_index :
         /\ IsSome(spatial_index[i].centroid)
         /\ q' = [ kind |-> "admin_place", boundary |-> spatial_index[i],
                   place |-> admin_place(spatial_index[i]) ]
    /\ UNCHANGED ingest_vars

NextPip ==
    \/ PipLookup
    \/ PipAdminPlace

SpecPip == InitPip /\ [][NextPip]_vars

\* ------------------------------------------------------ ring stitching
\* A coordinate is a point number; the node with id p lies at point p.
\* ring.reverse()
Reverse(ring) == [ i \in DOMAIN ring |-> ring[Len(ring) + 1 - i] ]

\* a variant of join that connects a ring only in its given direction,
\* against which C16 is tested
join_ForwardOnly(current, ring) ==
    IF current[Len(current)] = ring[1]
    THEN Some(current \o Tail(ring))
    ELSE IF current[1] = ring[Len(ring)]
    THEN Some(SubSeq(ring, 1, Len(ring) - 1) \o current)
    ELSE None

\* the four ways merge_rings_to_polygons connects a ring to the current
\* chain, tried in this order; None when the ring does not connect
join(current, ring) ==
    IF current[Len(current)] = ring[1]
    THEN Some(current \o Tail(ring))
    ELSE IF current[Len(current)] = ring[Len(ring)]
    THEN Some(current \o Tail(Reverse(ring)))
    ELSE IF current[1] = ring[Len(ring)]
    THEN Some(SubSeq(ring, 1, Len(ring) - 1) \o current)
    ELSE IF current[1] = ring[1]
    THEN Some(SubSeq(Reverse(ring), 1, Len(ring) - 1) \o current)
    ELSE None

\* the loop "while merged && !remaining.is_empty()": the first remaining
\* ring that connects is joined and the scan starts again; the result is the
\* chain and the rings left over
RECURSIVE merge_chain(_, _)
merge_chain(current, remaining) ==
    LET hits == { i \in DOMAIN remaining : IsSome(join(current, remaining[i])) }
    IN  IF hits = {} THEN << current, remaining >>
        ELSE LET i == CHOOSE h \in hits : \A g \in hits : h <= g
             IN  merge_chain(Unwrap(join(current, remaining[i])), RemoveAt(remaining, i))

\* a variant of close_ring that keeps the chain as it is, against which C19
\* is tested
close_ring_AsIs(current) == IF Len(current) >= 3 THEN << current >> ELSE <<>>

\* "Close the ring if possible": a chain of 3 or more points gets its first
\* point appended when it is not closed, and is a polygon from 4 points on
close_ring(current) ==
    IF Len(current) >= 3
    THEN LET closed == IF current[1] /= current[Len(current)]
                       THEN Append(current, current[1])
                       ELSE current
         IN  IF Len(closed) >= 4 THEN << closed >> ELSE <<>>
    ELSE <<>>

\* merge_rings_to_polygons: the outer rings of the polygons it returns
RECURSIVE merge_rings_to_polygons(_)
merge_rings_to_polygons(rings) ==
    IF rings = <<>> THEN <<>>
    ELSE LET current == Head(rings)
         IN  IF current[1] = current[Len(current)] /\ Len(current) >= 4
             THEN << current >> \o merge_rings_to_polygons(Tail(rings))
             ELSE LET m == merge_chain(current, Tail(rings))
                  IN  close_ring(m[1]) \o merge_rings_to_polygons(m[2])

\* the coordinates of a way: get_node_coords of every node, filter_map
\* leaving out the nodes that are not in the node table
way_coords(nodes, node_table) == SelectSeq(nodes, LAMBDA nid : nid \in node_table)

\* the rings resolve_relation hands to the stitcher: the coordinates of every
\* member way found in way_nodes, if there are at least 2
relation_rings(member_ways, node_table) ==
    LET coords == [ i \in DOMAIN member_ways |-> way_coords(member_ways[i], node_table) ]
    IN  SelectSeq(coords, LAMBDA c : Len(c) >= 2)

\* GeometryResolver::resolve_relation: the polygons of the multipolygon
resolve_relation(member_ways, node_table) ==
    LET rings == relation_rings(member_ways, node_table)
    IN  IF rings = <<>> THEN None
        ELSE IF merge_rings_to_polygons(rings) = <<>> THEN None
        ELSE Some(merge_rings_to_polygons(rings))

\* GeometryResolver::resolve_way
resolve_way(nodes, node_table) ==
    LET coords == way_coords(nodes, node_table)
    IN  IF Len(coords) < 4 THEN None
        ELSE IF coords[1] /= coords[Len(coords)] THEN None
        ELSE Some(coords)

\* the member ways of the inputs: the closed ring 1, 2, .., n, 1 cut at any
\* non-empty set of its points, every piece in either direction, the pieces
\* in any order
MemberWayInputs(n) ==
    LET Arc(a, b) == LET len == IF b > a THEN b - a ELSE b - a + n
                     IN  [ i \in 1..(len + 1) |-> ((a + i - 2) % n) + 1 ]
        Sorted(cuts) == CHOOSE c \in [ 1..Cardinality(cuts) -> cuts ] :
                            \A i, j \in DOMAIN c : i < j => c[i] < c[j]
        Pieces(cuts) == LET c == Sorted(cuts)
                        IN  [ i \in DOMAIN c |-> Arc(c[i], c[(i % Len(c)) + 1]) ]
    IN  UNION { { [ i \in 1..Cardinality(cuts) |->
                      IF flip[p[i]] THEN Reverse(Pieces(cuts)[p[i]]) ELSE Pieces(cuts)[p[i]] ]
                  : p \in { f \in [ 1..Cardinality(cuts) -> 1..Cardinality(cuts) ] :
                              \A i, j \in DOMAIN f : f[i] = f[j] => i = j },
                    flip \in [ 1..Cardinality(cuts) -> BOOLEAN ] }
                : cuts \in (SUBSET (1..n)) \ { {} } }

\* the resolver is built before the spatial index: nothing is ingested yet
InitGeom ==
    /\ spatial_index = <<>>
    /\ pbf = <<>>
    /\ merge_roads = FALSE
    /\ PipelineInit
    /\ q = NoQuery

\* resolve_relation for a relation whose member ways are cut from a ring of
\* n points; the member way at position absent (if any) is not in way_nodes
\* and the node missing (if any) is not in the node table
ResolveRelation ==
    /\ q = NoQuery
    /\ \E n \in 3..MaxRingPoints :
         \E ways \in MemberWayInputs(n), absent \in 0..n, missing \in 0..n :
            /\ absent <= Len(ways)
            /\ absent = 0 \/ missing = 0
            /\ LET found == IF absent = 0 THEN ways ELSE RemoveAt(ways, absent)
                   node_table == (1..n) \ { missing }
               IN  q' = [ kind |-> "relation", n |-> n, ways |-> ways, absent |-> absent,
                          missing |-> missing,
                          rings |-> relation_rings(found, node_table),
                          polygons |-> merge_rings_to_polygons(relation_rings(found, node_table)),
                          geometry |-> resolve_relation(found, node_table) ]
    /\ UNCHANGED ingest_vars

\* resolve_way for a way that is one piece of such a ring
ResolveWay ==
    /\ q = NoQuery
    /\ \E n \in 3..MaxRingPoints :
         \E ways \in MemberWayInputs(n), missing \in 0..n :
            q' = [ kind |-> "way", n |-> n, nodes |-> ways[1], missing |-> missing,
                   geometry |-> resolve_way(ways[1], (1..n) \ { missing }) ]
    /\ UNCHANGED ingest_vars

NextGeom ==
    \/ ResolveRelation
    \/ ResolveWay

SpecGeom == InitGeom /\ [][NextGeom]_vars

\* ---------------------------------------------- stitching of two rings
\* the fragments of a relation with two outer rings that touch at point 1:
\* the ring 1-2-3-1 given by one closed way (starting at 1 or at 2) and the
\* ring 1-5-4-1 cut into two ways; and a detached closed ring and a detached
\* ring cut into two ways
FragmentUniverse ==
    << <<1, 2, 3, 1>>, <<2, 3, 1, 2>>, <<4, 1>>, <<1, 5, 4>>,
       <<6, 7, 8, 6>>, <<9, 10>>, <<10, 11, 9>> >>

\* the fragment lists of the inputs: up to MaxFragments fragments in any
\* order, a ring at most once
FragmentInputs ==
    { f \in UNION { [ 1..n -> DOMAIN FragmentUniverse ] : n \in 0..MaxFragments } :
        /\ \A i, j \in DOMAIN f : f[i] = f[j] => i = j
        /\ ~({ 1, 2 } \subseteq { f[i] : i \in DOMAIN f }) }

\* merge_rings_to_polygons on the fragments of such a relation
StitchFragments ==
    /\ q = NoQuery
    /\ \E f \in FragmentInputs :
         LET rings == [ i \in DOMAIN f |-> FragmentUniverse[f[i]] ]
         IN  q' = [ kind |-> "stitch", rings |-> rings,
                    polygons |-> merge_rings_to_polygons(rings) ]
    /\ UNCHANGED ingest_vars

SpecStitch == InitGeom /\ [][StitchFragments]_vars

\* ------------------------------------------------------- the node table
\* the node ids of a file; one more than a file holds, so that some id is
\* always absent
NodeIds == 1..(MaxNodes + 1)

\* a node of the file: lon() and lat() of the node with this id
NodeOf(id) == [ id |-> id, lon |-> 10 * id, lat |-> 10 * id + 1 ]

\* the nodes of a file in file order: every id at most once
NodeFiles ==
    { f \in UNION { [ 1..n -> NodeIds ] : n \in 0..MaxNodes } :
        \A i, j \in DOMAIN f : f[i] = f[j] => i = j }

\* the flag of the nodes pass when only the last comparison is kept
observed_sorted_LastOnly(sorted, id, last_id) == ~(id < last_id)

\* if id < last_id { sorted = false; }
observed_sorted(sorted, id, last_id) == sorted /\ ~(id < last_id)

\* the place of x in a sequence sorted by id
RECURSIVE InsertById(_, _)
InsertById(slice, x) ==
    IF slice = <<>> THEN << x >>
    ELSE IF x.id < Head(slice).id THEN << x >> \o slice
    ELSE << Head(slice) >> \o InsertById(Tail(slice), x)

\* slice.sort_unstable_by_key(|n| n.id)
RECURSIVE sort_unstable_by_key(_)
sort_unstable_by_key(slice) ==
    IF slice = <<>> THEN <<>>
    ELSE InsertById(sort_unstable_by_key(Tail(slice)), Head(slice))

\* slice.binary_search_by_key(&id, |n| n.id) on the records lo+1..hi: the
\* index of a record with the id, 0 when the search ends without one
RECURSIVE binary_search_by_key(_, _, _, _)
binary_search_by_key(slice, id, lo, hi) ==
    IF lo >= hi THEN 0
    ELSE LET mid == lo + (hi - lo) \div 2
         IN  IF slice[mid + 1].id = id THEN mid + 1
             ELSE IF slice[mid + 1].id < id
                  THEN binary_search_by_key(slice, id, mid + 1, hi)
                  ELSE binary_search_by_key(slice, id, lo, mid)

\* GeometryResolver::get_node_coords
get_node_coords(nodes_mmap, node_id) ==
    LET idx == binary_search_by_key(nodes_mmap, node_id, 0, Len(nodes_mmap))
    IN  IF idx # 0
        THEN Some([ x |-> nodes_mmap[idx].lon, y |-> nodes_mmap[idx].lat ])
        ELSE None

\* the state before pass 3: the file and the nodes the recorded ways refer to
BuildStart ==
    /\ q = NoQuery
    /\ \E f \in NodeFiles, needed \in SUBSET NodeIds :
         q' = [ kind |-> "nodes", pc |-> "scan", file |-> f,
                needed_nodes |-> needed, i |-> 1, nodes_mmap |-> <<>>,
                sorted |-> TRUE, last_id |-> -2147483647,   \* i64::MIN: below every id
                asked |-> 0, found |-> None ]
    /\ UNCHANGED ingest_vars

\* pass 3, one object of the file
BuildStoreNode ==
    /\ q.kind = "nodes" /\ q.pc = "scan" /\ q.i <= Len(q.file)
    /\ LET id == q.file[q.i]
       IN  IF id \in q.needed_nodes
           THEN q' = [ q EXCEPT !.i = q.i + 1,
                           !.sorted = observed_sorted(q.sorted, id, q.last_id),
                           !.last_id = id,
                           !.nodes_mmap = Append(q.nodes_mmap, NodeOf(id)) ]
           ELSE q' = [ q EXCEPT !.i = q.i + 1 ]
    /\ UNCHANGED ingest_vars

\* the end of the file: sort when needed, map read-only
BuildFinish ==
    /\ q.kind = "nodes" /\ q.pc = "scan" /\ q.i > Len(q.file)
    /\ q' = [ q EXCEPT !.pc = "built",
                  !.nodes_mmap = IF ~q.sorted /\ Len(q.nodes_mmap) > 0
                                 THEN sort_unstable_by_key(q.nodes_mmap)
                                 ELSE q.nodes_mmap ]
    /\ UNCHANGED ingest_vars

\* a lookup in the finished table
GetNodeCoords ==
    /\ q.kind = "nodes" /\ q.pc = "built"
    /\ \E id \in NodeIds :
         q' = [ q EXCEPT !.pc = "looked", !.asked = id,
                    !.found = get_node_coords(q.nodes_mmap, id) ]
    /\ UNCHANGED ingest_vars

NextNodes == BuildStart \/ BuildStoreNode \/ BuildFinish \/ GetNodeCoords

SpecNodes == InitGeom /\ [][NextNodes]_vars

\* ---------------------------------------------- the spatial index, built
\* A geometry is a MultiPolygon of rectangles << min_x, min_y, max_x, max_y >>
\* on a grid; a point is a pair of grid coordinates.
GridCoords == 0..4

\* the boundaries handed to AdminSpatialIndex::build: a country, a region of
\* two polygons whose envelope is larger than the polygons, a region without
\* geometry and two localities
IndexBoundaryUniverse ==
    << [ id |-> 21, level |-> "Country",  geometry |-> << <<0, 0, 4, 4>> >> ],
       [ id |-> 22, level |-> "Region",   geometry |-> << <<0, 0, 2, 2>>, <<2, 2, 4, 4>> >> ],
       [ id |-> 23, level |-> "Region",   geometry |-> << >> ],
       [ id |-> 24, level |-> "Locality", geometry |-> << <<2, 0, 4, 2>> >> ],
       [ id |-> 25, level |-> "Locality", geometry |-> << <<0, 0, 2, 2>> >> ] >>

IndexBuildInputs ==
    { [ i \in DOMAIN s |-> IndexBoundaryUniverse[s[i]] ] :
        s \in { t \in UNION { [ 1..n -> DOMAIN IndexBoundaryUniverse ] : n \in 0..MaxBoundaries } :
                  \A i, j \in DOMAIN t : t[i] = t[j] => i = j } }

SetMin(S) == CHOOSE x \in S : \A y \in S : x <= y
SetMax(S) == CHOOSE x \in S : \A y \in S : x >= y

\* AdminBoundary::bbox: the bounding rectangle of the geometry, None when
\* the geometry has no coordinate
bounding_rect(geometry) ==
    IF geometry = <<>> THEN None
    ELSE LET ps == { geometry[i] : i \in DOMAIN geometry }
         IN  Some(<< SetMin({ r[1] : r \in ps }), SetMin({ r[2] : r \in ps }),
                     SetMax({ r[3] : r \in ps }), SetMax({ r[4] : r \in ps }) >>)

\* IndexedBoundary::new
IndexedBoundary_new(boundary) ==
    LET bbox == bounding_rect(boundary.geometry)
    IN  IF IsSome(bbox)
        THEN Some([ boundary |-> boundary, envelope |-> Unwrap(bbox) ])
        ELSE None

\* boundaries.into_iter().filter_map(IndexedBoundary::new).collect()
RECURSIVE filter_map_indexed(_)
filter_map_indexed(boundaries) ==
    IF boundaries = <<>> THEN <<>>
    ELSE LET ib == IndexedBoundary_new(Head(boundaries))
         IN  (IF IsSome(ib) THEN << Unwrap(ib) >> ELSE <<>>)
             \o filter_map_indexed(Tail(boundaries))

\* the BTreeMap of the buckets as a vector: the levels that occur, in the
\* order of AdminLevel, each with its boundaries in the order of indexed
group_by_level(indexed) ==
    LET bucket(level) == SelectSeq([ i \in DOMAIN indexed |-> indexed[i].boundary ],
                                   LAMBDA b : b.level = level)
        all == [ i \in DOMAIN AdminLevel_all |->
                   << AdminLevel_all[i], bucket(AdminLevel_all[i]) >> ]
    IN  SelectSeq(all, LAMBDA e : e[2] # <<>>)

\* geometry.contains(&point): the point is inside one of the polygons
geometry_contains(geometry, lon, lat) ==
    \E i \in DOMAIN geometry :
        /\ geometry[i][1] < lon /\ lon < geometry[i][3]
        /\ geometry[i][2] < lat /\ lat < geometry[i][4]

\* the envelope meets the envelope of the point
envelope_intersects(envelope, lon, lat) ==
    /\ envelope[1] <= lon /\ lon <= envelope[3]
    /\ envelope[2] <= lat /\ lat <= envelope[4]

\* a lookup that returns every candidate of the envelope query
tree_lookup_EnvelopeOnly(tree, lon, lat) ==
    LET candidates == SelectSeq(tree, LAMBDA ib : envelope_intersects(ib.envelope, lon, lat))
    IN  [ i \in DOMAIN candidates |-> candidates[i].boundary ]

\* AdminSpatialIndex::lookup
tree_lookup(tree, lon, lat) ==
    LET candidates == SelectSeq(tree, LAMBDA ib : envelope_intersects(ib.envelope, lon, lat))
        containing == SelectSeq(candidates,
                                LAMBDA ib : geometry_contains(ib.boundary.geometry, lon, lat))
    IN  [ i \in DOMAIN containing |-> containing[i].boundary ]

\* AdminSpatialIndex::build; the tree holds the indexed boundaries in an
\* order of its own
IndexBuild ==
    /\ q = NoQuery
    /\ \E boundaries \in IndexBuildInputs :
         LET indexed == filter_map_indexed(boundaries)
         IN  \E tree \in { indexed, Reverse(indexed) } :
                 q' = [ kind |-> "index", pc |-> "built", boundaries |-> boundaries,
                        tree |-> tree, by_level |-> group_by_level(indexed),
                        len |-> Len(tree), lon |-> 0, lat |-> 0, found |-> <<>> ]
    /\ UNCHANGED ingest_vars

\* AdminSpatialIndex::lookup for a point
IndexLookup ==
    /\ q.kind = "index" /\ q.pc = "built"
    /\ \E lon \in GridCoords, lat \in GridCoords :
         q' = [ q EXCEPT !.pc = "looked", !.lon = lon, !.lat = lat,
                    !.found = tree_lookup(q.tree, lon, lat) ]
    /\ UNCHANGED ingest_vars

NextIndex == IndexBuild \/ IndexLookup

SpecIndex == InitGeom /\ [][NextIndex]_vars

\* ------------------------------------------------ the text index request
\* serde_json::Value: null, an object (a map from keys to values) or an
\* array; strings and numbers stand for themselves
JsonNull == [ t |-> "null" ]
JsonObject(m) == [ t |-> "object", m |-> m ]
JsonArray(a) == [ t |-> "array", a |-> a ]

\* Value::is_object, Value::as_array_mut().is_some()
is_object(v) == v.t = "object"
is_array(v) == v.t = "array"

\* value[k1][k2].. read through Index: Null for a key that is absent or
\* for a value that is no object
RECURSIVE value_index(_, _)
value_index(v, path) ==
    IF path = <<>> THEN v
    ELSE IF is_object(v) /\ Head(path) \in DOMAIN v.m
         THEN value_index(v.m[Head(path)], Tail(path))
         ELSE JsonNull

\* the value after value[k1][k2].. was reached through IndexMut: at every
\* step Null becomes an empty object and an absent key is inserted as Null
RECURSIVE index_or_insert(_, _)
index_or_insert(v, path) ==
    IF path = <<>> THEN v
    ELSE LET m == IF v = JsonNull THEN EmptyMap ELSE v.m
             child == IF Head(path) \in DOMAIN m THEN m[Head(path)] ELSE JsonNull
         IN  JsonObject((Head(path) :> index_or_insert(child, Tail(path))) @@ m)

\* value[k1][k2].. = x
RECURSIVE index_assign(_, _, _)
index_assign(v, path, x) ==
    IF path = <<>> THEN x
    ELSE LET m == IF v = JsonNull THEN EmptyMap ELSE v.m
             child == IF Head(path) \in DOMAIN m THEN m[Head(path)] ELSE JsonNull
         IN  JsonObject((Head(path) :> index_assign(child, Tail(path), x)) @@ m)

\* SearchParams of a forward search: text, layers, bbox, size
SearchParams(text, layers, bbox, size) ==
    [ text |-> text, layers |-> layers, bbox |-> bbox, size |-> size ]

\* the layer filter of build_search_query
terms_filter(layers) ==
    JsonObject("terms" :> JsonObject("layer" :> JsonArray(layers)))

\* build_search_query
build_search_query(params, autocomplete) ==
    LET must == JsonArray(<< JsonObject("match" :> JsonObject("name_all" :>
                     JsonObject(("query" :> params.text) @@ ("fuzziness" :> "AUTO")))) >>)
        filter == IF IsSome(params.layers)
                  THEN JsonArray(<< terms_filter(Unwrap(params.layers)) >>)
                  ELSE JsonArray(<<>>)
        bool_query == JsonObject(("must" :> must) @@ ("filter" :> filter))
        functions == JsonArray(<< JsonObject(
                         ("field_value_factor" :> JsonObject(
                              ("field" :> "importance") @@ ("missing" :> 0)
                              @@ ("modifier" :> "sqrt") @@ ("factor" :> 1)))
                         @@ ("weight" :> 10)) >>)
    IN  JsonObject(
            ("query" :> JsonObject("function_score" :> JsonObject(
                 ("query" :> JsonObject("bool" :> bool_query))
                 @@ ("functions" :> functions)
                 @@ ("score_mode" :> "sum") @@ ("boost_mode" :> "multiply"))))
            @@ ("size" :> params.size)
            @@ ("stored_fields" :> JsonArray(<< "_id" >>)))

\* the bounding box filter of execute_search_internal
geo_bounding_box(bbox) ==
    JsonObject("geo_bounding_box" :> JsonObject("center_point" :> JsonObject(
        ("top_left" :> JsonObject(("lon" :> bbox[1]) @@ ("lat" :> bbox[4])))
        @@ ("bottom_right" :> JsonObject(("lon" :> bbox[3]) @@ ("lat" :> bbox[2]))))))

\* the request body of execute_search_internal: the four branches that
\* look for the filter list, each condition leaving what it inserted
request_body(params, autocomplete) ==
    LET body == build_search_query(params, autocomplete)
    IN  IF ~IsSome(params.bbox) THEN body
        ELSE
        LET filter == geo_bounding_box(Unwrap(params.bbox))
            outer == << "query", "bool", "filter" >>
            inner == << "query", "function_score", "query", "bool", "filter" >>
            body1 == index_or_insert(body, outer)
            body3 == index_or_insert(body1, inner)
        IN  IF is_array(value_index(body1, outer))
            THEN index_assign(body1, outer,
                              JsonArray(Append(value_index(body1, outer).a, filter)))
            ELSE IF is_object(value_index(body1, << "query", "bool" >>))
            THEN index_assign(body1, outer, JsonArray(<< filter >>))
            ELSE IF is_array(value_index(body3, inner))
            THEN index_assign(body3, inner,
                              JsonArray(Append(value_index(body3, inner).a, filter)))
            ELSE IF is_object(value_index(body3, << "query", "function_score", "query", "bool" >>))
            THEN index_assign(body3, inner, JsonArray(<< filter >>))
            ELSE body3

\* the bounding boxes and layer lists of the requests
RequestBboxes ==
    { None } \cup { Some(<< a, b, c, d >>) : a \in { 0, 1 }, b \in { 0, 1 },
                                            c \in { 2, 3 }, d \in { 2, 3 } }
RequestLayers == { None, Some(<< "venue" >>), Some(<< "address", "street" >>) }

\* execute_search_internal up to the request sent to the text index
SearchRequest ==
    /\ q = NoQuery
    /\ \E text \in { "main", "main st" }, layers \in RequestLayers,
          bbox \in RequestBboxes, autocomplete \in BOOLEAN :
         LET params == SearchParams(text, layers, bbox, 10)
         IN  q' = [ kind |-> "request", params |-> params, autocomplete |-> autocomplete,
                    body |-> request_body(params, autocomplete) ]
    /\ UNCHANGED ingest_vars

SpecRequest == InitQuery /\ [][SearchRequest]_vars

\* --------------------------------------------------------- batch import
\* the regions of the configuration, in configuration order
Regions == 1..MaxRegions

\* capacity of the channel of prepared regions: mpsc::channel(2)
PREPARED_CAPACITY == 2

\* is_first_region when a skipped region leaves it as it is
is_first_after_KeepOnSkip(res, is_first_region) ==
    IF res = "skip" THEN is_first_region ELSE FALSE

\* is_first_region after one iteration of the producer loop: false after a
\* sent region, after a skipped region and after a failed preparation
is_first_after(res, is_first_region) == FALSE

\* prepare_region: the arguments of the ingest of a prepared region
PreparedRegion(region, base_create_index, is_first_region) ==
    [ region |-> region,
      create_index |-> IF ~is_first_region THEN FALSE ELSE base_create_index ]

\* run_batch up to the spawn of the producer
BatchStart ==
    /\ q = NoQuery
    /\ \E create_index \in BOOLEAN :
         q' = [ kind |-> "batch", create_index |-> create_index,
                p_pc |-> "prepare", p_i |-> 1, is_first_region |-> TRUE,
                pending |-> None, skipped |-> {}, chan |-> <<>>,
                c_pc |-> "recv", current |-> None,
                ingested |-> <<>>, versions |-> <<>> ]
    /\ UNCHANGED ingest_vars

\* the producer prepares the next region: Ok(Some(prepared)), Ok(None) for
\* a failed download, a version match or a failed filter, or Err
ProducerPrepare ==
    /\ q.kind = "batch" /\ q.p_pc = "prepare" /\ q.p_i <= MaxRegions
    /\ \E res \in { "prepared", "skip", "err" } :
         IF res = "prepared"
         THEN q' = [ q EXCEPT !.p_pc = "send",
                         !.pending = Some(PreparedRegion(q.p_i, q.create_index,
                                                         q.is_first_region)) ]
         ELSE q' = [ q EXCEPT !.p_i = q.p_i + 1,
                         !.skipped = q.skipped \cup { q.p_i },
                         !.is_first_region = is_first_after(res, q.is_first_region) ]
    /\ UNCHANGED ingest_vars

\* tx.send(prepared).await returns when the channel has room; the receiver
\* lives until the channel is closed, so the send does not fail
ProducerSend ==
    /\ q.kind = "batch" /\ q.p_pc = "send"
    /\ Len(q.chan) < PREPARED_CAPACITY
    /\ q' = [ q EXCEPT !.chan = Append(q.chan, Unwrap(q.pending)),
                  !.pending = None, !.p_pc = "prepare", !.p_i = q.p_i + 1,
                  !.is_first_region = is_first_after("prepared", q.is_first_region) ]
    /\ UNCHANGED ingest_vars

\* the producer loop ends and tx is dropped
ProducerEnd ==
    /\ q.kind = "batch" /\ q.p_pc = "prepare" /\ q.p_i > MaxRegions
    /\ q' = [ q EXCEPT !.p_pc = "done" ]
    /\ UNCHANGED ingest_vars

\* rx.recv().await returns a prepared region
ConsumerRecv ==
    /\ q.kind = "batch" /\ q.c_pc = "recv" /\ q.chan # <<>>
    /\ q' = [ q EXCEPT !.c_pc = "ingest", !.current = Some(Head(q.chan)),
                  !.chan = Tail(q.chan) ]
    /\ UNCHANGED ingest_vars

\* an ingest loop that goes on to save the version whatever run_single
\* returned
ConsumerIngest_SavesAlways ==
    /\ q.kind = "batch" /\ q.c_pc = "ingest"
    /\ \E ok \in BOOLEAN :
         q' = [ q EXCEPT !.ingested = Append(q.ingested,
                                            [ region |-> Unwrap(q.current).region,
                                              create_index |-> Unwrap(q.current).create_index,
                                              ok |-> ok ]),
                    !.c_pc = "save" ]
    /\ UNCHANGED ingest_vars

\* run_single(prepared.args).await: on Err the loop continues
ConsumerIngest ==
    /\ q.kind = "batch" /\ q.c_pc = "ingest"
    /\ \E ok \in BOOLEAN :
         q' = [ q EXCEPT !.ingested = Append(q.ingested,
                                            [ region |-> Unwrap(q.current).region,
                                              create_index |-> Unwrap(q.current).create_index,
                                              ok |-> ok ]),
                    !.c_pc = IF ok THEN "save" ELSE "recv",
                    !.current = IF ok THEN q.current ELSE None ]
    /\ UNCHANGED ingest_vars

\* version_manager.save_version(..).await: a failure is logged
ConsumerSaveVersion ==
    /\ q.kind = "batch" /\ q.c_pc = "save"
    /\ \E saved \in BOOLEAN :
         q' = [ q EXCEPT !.versions = IF saved
                                      THEN Append(q.versions, Unwrap(q.current).region)
                                      ELSE q.versions,
                    !.c_pc = "recv", !.current = None ]
    /\ UNCHANGED ingest_vars

\* rx.recv().await returns None: the channel is closed and empty
ConsumerEnd ==
    /\ q.kind = "batch" /\ q.c_pc = "recv" /\ q.chan = <<>> /\ q.p_pc = "done"
    /\ q' = [ q EXCEPT !.c_pc = "done" ]
    /\ UNCHANGED ingest_vars

NextBatch ==
    \/ BatchStart
    \/ ProducerPrepare \/ ProducerSend \/ ProducerEnd
    \/ ConsumerRecv \/ ConsumerIngest \/ ConsumerSaveVersion \/ ConsumerEnd

SpecBatch == InitQuery /\ [][NextBatch]_vars

\* --------------------------------------------- synonym normalization
\* the terms of the synonym files and the tokens of the texts
SynTerms == { "avenue", "ave", "av" }
SynTokens == { "Avenue,", "Ave.", "av", "Main" }

\* the lines of the synonym files: equivalence lists of two items, explicit
\* mappings of one item to one item, and one line with two "=>"
SynLines ==
    { << items >> : items \in [ 1..2 -> SynTerms ] }
    \cup { << lefts, rights >> : lefts \in [ 1..1 -> SynTerms ], rights \in [ 1..1 -> SynTerms ] }
    \cup { << << "avenue" >>, << "ave" >>, << "av" >> >> }

SynFiles == UNION { [ 1..k -> SynLines ] : k \in 0..MaxSynLines }

\* texts of one or two tokens
SynTexts == { << t >> : t \in SynTokens } \cup { << t, u >> : t \in SynTokens, u \in SynTokens }

\* the service is created before the ingest starts
InitSyn ==
    /\ spatial_index = <<>>
    /\ pbf = <<>>
    /\ merge_roads = FALSE
    /\ PipelineInit
    /\ q = NoQuery

\* a table is loaded from a synonym file and a text is normalized, and the
\* result is normalized again
Normalize ==
    /\ q = NoQuery
    /\ \E file \in SynFiles, text \in SynTexts :
         LET table == load_file(EmptyMap, file)
         IN  q' = [ kind |-> "normalize", table |-> table, text |-> text,
                    once |-> SynonymService_normalize(table, text),
                    twice |-> SynonymService_normalize(table,
                                  SynonymService_normalize(table, text)) ]
    /\ UNCHANGED ingest_vars

NextSyn == Normalize

SpecSyn == InitSyn /\ [][NextSyn]_vars

\* ------------------------------------------------ wikidata label fetch
\* the labels the SPARQL endpoint answers for a Q-ID (Q-IDs are numbers
\* here): every third Q-ID has no label
sparql_labels(qid) ==
    IF qid % 3 = 0 THEN EmptyMap
    ELSE ("de" :> <<"Kaffee">>) @@ ("en" :> <<"Coffee">>)

\* the outcomes of one SPARQL request: send() fails, the status is not a
\* success, the body does not parse, or the bindings arrive
RequestOutcomes == { "transport", "status", "parse", "ok" }

\* a variant of to_fetch that asks for every Q-ID again, against which C22 is
\* tested
to_fetch_Unfiltered(cache_map, qids) == qids

\* fetch_batch: qids.iter().filter(|q| !cache.contains_key(*q))
to_fetch(cache_map, qids) == SelectSeq(qids, LAMBDA qid : qid \notin DOMAIN cache_map)

\* slice::chunks(size)
chunks(seq, size) ==
    [ c \in 1..((Len(seq) + size - 1) \div size) |->
        SubSeq(seq, (c - 1) * size + 1,
               IF c * size < Len(seq) THEN c * size ELSE Len(seq)) ]

\* a variant of attempt_result that allows a third attempt, against which C21
\* is tested
attempt_result_ThreeAttempts(attempts, outcome) ==
    IF outcome \in { "transport", "status" }
    THEN IF attempts < max_attempts + 1 THEN "retry" ELSE "swallow"
    ELSE IF outcome = "parse" THEN "swallow" ELSE "store"

\* fetch_chunk, what follows the attempt number attempts: a failed send or a
\* non-success status is retried while attempts < max_attempts and then
\* swallowed (return Ok), a body that does not parse is swallowed at once,
\* and bindings are stored
attempt_result(attempts, outcome) ==
    IF outcome \in { "transport", "status" }
    THEN IF attempts < max_attempts THEN "retry" ELSE "swallow"
    ELSE IF outcome = "parse" THEN "swallow" ELSE "store"

\* fetch_chunk, "Process results": cache.entry(qid).or_insert_with(new)
\* .insert(lang, label) for every binding of the response
store_bindings(cache_map, chunk) ==
    LET bound == { qid \in SeqRangeOf(chunk) : sparql_labels(qid) /= EmptyMap }
    IN  [ qid \in DOMAIN cache_map \cup bound |->
            IF qid \notin bound THEN cache_map[qid]
            ELSE IF qid \in DOMAIN cache_map THEN sparql_labels(qid) @@ cache_map[qid]
            ELSE sparql_labels(qid) ]

\* process_buffer: places.iter().filter_map(|p| p.wikidata_id.clone())
buffer_qids(places) ==
    LET with_id == SelectSeq(places, LAMBDA p : IsSome(p.wikidata_id))
    IN  [ i \in DOMAIN with_id |-> Unwrap(with_id[i].wikidata_id) ]

\* process_buffer: merge_labels into the name of every place with a Q-ID
merge_all(cache_map, places) ==
    [ i \in DOMAIN places |->
        IF IsSome(places[i].wikidata_id)
        THEN [ places[i] EXCEPT !.name = merge_labels(cache_map, Unwrap(places[i].wikidata_id), @) ]
        ELSE places[i] ]

\* the OSM names of the place with Q-ID qid
OsmNames(qid) ==
    IF qid % 2 = 1 THEN ("default" :> <<"Cafe">>)
    ELSE ("default" :> <<"Haus">>) @@ ("de" :> <<"Haus">>)

\* the batches process_buffer is called with: places with the Q-IDs 1..n, for
\* n around the multiples of the chunk size, followed by nothing, by a second
\* place with Q-ID 1 or by a place without Q-ID
WikiBatchSizes ==
    { 0, 1 } \cup { k * CHUNK_SIZE + r : k \in 1..MaxFullChunks, r \in { 0, 1, 2 } }

WikiBatch(n, extra) ==
    [ i \in 1..n |-> [ wikidata_id |-> Some(i), name |-> OsmNames(i) ] ]
    \o (IF extra = "dup" THEN << [ wikidata_id |-> Some(1), name |-> OsmNames(2) ] >>
        ELSE IF extra = "noid" THEN << [ wikidata_id |-> None, name |-> OsmNames(1) ] >>
        ELSE <<>>)

\* the cache earlier batches left: the labels of the Q-IDs up to k
WikiCache(k) ==
    [ qid \in { c \in 1..k : sparql_labels(c) /= EmptyMap } |-> sparql_labels(qid) ]

InitWiki ==
    /\ spatial_index = <<>>
    /\ pbf = <<>>
    /\ merge_roads = FALSE
    /\ PipelineInit
    /\ q = NoQuery

\* process_buffer step 1 begins: without Q-IDs it is skipped, and fetch_batch
\* returns at once when every Q-ID is cached
FetchBatchStart ==
    /\ q = NoQuery
    /\ \E n \in WikiBatchSizes, extra \in { "none", "dup", "noid" }, k \in { 0, 1, 2, CHUNK_SIZE } :
         /\ n + (IF extra = "none" THEN 0 ELSE 1) >= 1
         /\ extra = "dup" => n >= 1
         /\ LET places == WikiBatch(n, extra)
                qids == buffer_qids(places)
                todo == to_fetch(WikiCache(k), qids)
            IN  q' = [ kind |-> "fetch",
                       pc |-> IF qids = <<>> THEN "upsert"
                              ELSE IF todo = <<>> THEN "merge" ELSE "chunk",
                       places0 |-> places, places |-> places, twice |-> places,
                       cache0 |-> WikiCache(k), cache |-> WikiCache(k),
                       to_fetch |-> todo, ci |-> 1, attempts |-> 0,
                       requests |-> <<>>,
                       result |-> IF qids /= <<>> /\ todo = <<>> THEN "ok" ELSE "none" ]
    /\ UNCHANGED ingest_vars

\* fetch_chunk sends one request for the current chunk and handles the
\* outcome; after the last chunk fetch_batch returns Ok
FetchChunkAttempt ==
    /\ q.kind = "fetch"
    /\ q.pc = "chunk"
    /\ \E outcome \in RequestOutcomes :
         LET chunk == chunks(q.to_fetch, CHUNK_SIZE)[q.ci]
             attempts == q.attempts + 1
             next == attempt_result(attempts, outcome)
             cache_after == IF next = "store" THEN store_bindings(q.cache, chunk) ELSE q.cache
             last == q.ci = Len(chunks(q.to_fetch, CHUNK_SIZE))
         IN  q' = [ q EXCEPT
                      !.requests = Append(@, [ ci |-> q.ci, qids |-> chunk, attempt |-> attempts,
                                               outcome |-> outcome,
                                               cache_before |-> q.cache,
                                               cache_after |-> cache_after ]),
                      !.cache = cache_after,
                      !.attempts = IF next = "retry" THEN attempts ELSE 0,
                      !.ci = IF next = "retry" \/ last THEN @ ELSE @ + 1,
                      !.pc = IF next /= "retry" /\ last THEN "merge" ELSE "chunk",
                      !.result = IF next /= "retry" /\ last THEN "ok" ELSE @ ]
    /\ UNCHANGED ingest_vars

\* fetch_batch has returned Ok: merge_labels for every place with a Q-ID
\* (twice holds the names after a second merge), then step 2 begins
MergeLabels ==
    /\ q.kind = "fetch"
    /\ q.pc = "merge"
    /\ q' = [ q EXCEPT !.places = merge_all(q.cache, q.places0),
                       !.twice = merge_all(q.cache, merge_all(q.cache, q.places0)),
                       !.pc = "upsert" ]
    /\ UNCHANGED ingest_vars

NextWiki ==
    \/ FetchBatchStart
    \/ FetchChunkAttempt
    \/ MergeLabels

SpecWiki == InitWiki /\ [][NextWiki]_vars

\* ------------------------------------------------ pipeline back-pressure
\* The flow of places through the two bounded channels, with the places
\* numbered in the order the extraction sends them and every write to the
\* sinks succeeding.
\* a variant of channel_has_room for an unbounded channel, against which C24
\* is tested
channel_has_room_Unbounded(len, capacity) == TRUE

\* mpsc::Sender::send(..).await completes only while the channel holds fewer
\* than capacity items
channel_has_room(len, capacity) == len < capacity

\* the number of places the stages behind the first channel hold when all
\* are full
FlowWindow == BatchSize * (INDEXER_CAPACITY_FACTOR + 2)

InitFlow ==
    /\ spatial_index = <<>>
    /\ pbf = <<>>
    /\ merge_roads = FALSE
    /\ PipelineInit
    /\ q = NoQuery

\* run_single has created both channels and tasks and has sent the first k
\* places before the processing task first receives; FlowWindow + 1 more
\* places follow
FlowStart ==
    /\ q = NoQuery
    /\ \E k \in { 0, PIPELINE_CAPACITY - 1, PIPELINE_CAPACITY } :
         q' = [ kind |-> "flow", total |-> k + FlowWindow + 1, next |-> k + 1,
                tx_open |-> TRUE, chan |-> [ i \in 1..k |-> i ], received |-> 0,
                pl_pc |-> "recv", pl_buffer |-> <<>>, pl_i |-> 0, pl_final |-> FALSE,
                ix_chan |-> <<>>, ix_pc |-> "recv", ix_buffer |-> <<>>,
                ix_final |-> FALSE, indexed |-> <<>> ]
    /\ UNCHANGED ingest_vars

\* run_single: tx.send(place).await
FlowSend ==
    /\ q.kind = "flow"
    /\ q.next <= q.total
    /\ q.pl_pc # "dead"
    /\ channel_has_room(Len(q.chan), PIPELINE_CAPACITY)
    /\ q' = [ q EXCEPT !.chan = Append(@, q.next), !.next = @ + 1 ]
    /\ UNCHANGED ingest_vars

\* run_single: drop(tx) after the last place
FlowDropTx ==
    /\ q.kind = "flow"
    /\ q.next > q.total
    /\ q.tx_open
    /\ q' = [ q EXCEPT !.tx_open = FALSE ]
    /\ UNCHANGED ingest_vars

\* run_processing_pipeline: rx.recv() returns a place; the processing task
\* receives at most FlowWindow + 1 places
FlowRecv ==
    /\ q.kind = "flow"
    /\ q.pl_pc = "recv"
    /\ q.chan /= <<>>
    /\ q.received <= FlowWindow
    /\ q' = [ q EXCEPT !.chan = Tail(@), !.received = @ + 1,
                       !.pl_buffer = Append(@, Head(q.chan)),
                       !.pl_pc = IF Len(q.pl_buffer) + 1 >= BatchSize THEN "send" ELSE "recv",
                       !.pl_i = IF Len(q.pl_buffer) + 1 >= BatchSize THEN 1 ELSE 0 ]
    /\ UNCHANGED ingest_vars

\* run_processing_pipeline: rx.recv() returns None; the remaining places are
\* processed and the task ends
FlowClosed ==
    /\ q.kind = "flow"
    /\ q.pl_pc = "recv"
    /\ q.chan = <<>>
    /\ ~q.tx_open
    /\ q' = IF q.pl_buffer /= <<>>
            THEN [ q EXCEPT !.pl_pc = "send", !.pl_i = 1, !.pl_final = TRUE ]
            ELSE [ q EXCEPT !.pl_pc = "done" ]
    /\ UNCHANGED ingest_vars

\* process_buffer: indexer_tx.send(place.clone()).await for the place at
\* pl_i; after the last one the buffer is cleared
FlowForward ==
    /\ q.kind = "flow"
    /\ q.pl_pc = "send"
    /\ q.ix_pc # "err"
    /\ channel_has_room(Len(q.ix_chan), BatchSize * INDEXER_CAPACITY_FACTOR)
    /\ q' = IF q.pl_i = Len(q.pl_buffer)
            THEN [ q EXCEPT !.ix_chan = Append(@, q.pl_buffer[q.pl_i]),
                            !.pl_buffer = <<>>, !.pl_i = 0,
                            !.pl_pc = IF q.pl_final THEN "done" ELSE "recv" ]
            ELSE [ q EXCEPT !.ix_chan = Append(@, q.pl_buffer[q.pl_i]), !.pl_i = @ + 1 ]
    /\ UNCHANGED ingest_vars

\* run_indexer: rx.recv() returns a place
FlowIndexerRecv ==
    /\ q.kind = "flow"
    /\ q.ix_pc = "recv"
    /\ q.ix_chan /= <<>>
    /\ q' = [ q EXCEPT !.ix_chan = Tail(@),
                       !.ix_buffer = Append(@, Head(q.ix_chan)),
                       !.ix_pc = IF Len(q.ix_buffer) + 1 >= BatchSize THEN "flush" ELSE "recv" ]
    /\ UNCHANGED ingest_vars

\* run_indexer: rx.recv() returns None once the processing task has ended
\* and finish() has dropped the sender
FlowIndexerClosed ==
    /\ q.kind = "flow"
    /\ q.ix_pc = "recv"
    /\ q.ix_chan = <<>>
    /\ q.pl_pc \in { "done", "dead" }
    /\ q' = IF q.ix_buffer /= <<>>
            THEN [ q EXCEPT !.ix_pc = "flush", !.ix_final = TRUE ]
            ELSE [ q EXCEPT !.ix_pc = "done" ]
    /\ UNCHANGED ingest_vars

\* flush: the bulk request for the buffer
FlowFlush ==
    /\ q.kind = "flow"
    /\ q.ix_pc = "flush"
    /\ q' = [ q EXCEPT !.indexed = @ \o q.ix_buffer, !.ix_buffer = <<>>,
                       !.ix_pc = IF q.ix_final THEN "done" ELSE "recv" ]
    /\ UNCHANGED ingest_vars

NextFlow ==
    \/ FlowStart
    \/ FlowSend
    \/ FlowDropTx
    \/ FlowRecv
    \/ FlowClosed
    \/ FlowForward
    \/ FlowIndexerRecv
    \/ FlowIndexerClosed
    \/ FlowFlush

SpecFlow == InitFlow /\ [][NextFlow]_vars

\* ------------------------------------------------------------- shutdown
\* The same stages with the ways a stage can end early: the bulk request of
\* a flush fails and run_indexer returns the error, or the processing task
\* panics; either drops the receiver of a channel.

\* a send into a channel whose receiver is gone that waits for room for ever
\* instead of failing, against which C33 is tested
FlowForwardFails_Waits ==
    /\ q.kind = "flow"
    /\ q.pl_pc = "send"
    /\ q.ix_pc = "err"
    /\ FALSE
    /\ UNCHANGED vars

\* process_buffer: indexer_tx.send fails because run_indexer has returned;
\* the error leaves process_buffer, the buffer is cleared
FlowForwardFails ==
    /\ q.kind = "flow"
    /\ q.pl_pc = "send"
    /\ q.ix_pc = "err"
    /\ q' = [ q EXCEPT !.pl_buffer = <<>>, !.pl_i = 0,
                       !.pl_pc = IF q.pl_final THEN "done" ELSE "recv" ]
    /\ UNCHANGED ingest_vars

\* flush: the bulk request fails; run_indexer returns the error and its
\* receiver is dropped with what the channel holds
FlowFlushFails ==
    /\ q.kind = "flow"
    /\ q.ix_pc = "flush"
    /\ q' = [ q EXCEPT !.ix_pc = "err", !.ix_buffer = <<>>, !.ix_chan = <<>> ]
    /\ UNCHANGED ingest_vars

\* the processing task panics: its receiver and its indexer sender are
\* dropped (pipeline_handle.await returns the JoinError)
FlowPipelinePanics ==
    /\ q.kind = "flow"
    /\ q.pl_pc \notin { "done", "dead" }
    /\ q' = [ q EXCEPT !.pl_pc = "dead", !.pl_buffer = <<>>, !.pl_i = 0, !.chan = <<>> ]
    /\ UNCHANGED ingest_vars

\* run_single: tx.send fails because the receiver is gone; every loop of the
\* extraction breaks at its first failed send
FlowSendFails ==
    /\ q.kind = "flow"
    /\ q.next <= q.total
    /\ q.pl_pc = "dead"
    /\ q' = [ q EXCEPT !.next = q.total + 1 ]
    /\ UNCHANGED ingest_vars

ExtractionSteps == FlowSend \/ FlowSendFails \/ FlowDropTx
ProcessingSteps == FlowRecv \/ FlowClosed \/ FlowForward \/ FlowForwardFails
IndexerSteps == FlowIndexerRecv \/ FlowIndexerClosed \/ FlowFlush \/ FlowFlushFails

NextShutdown ==
    \/ NextFlow
    \/ FlowForwardFails
    \/ FlowFlushFails
    \/ FlowPipelinePanics
    \/ FlowSendFails

\* every task is scheduled again while it can take a step; a sink answers
\* every request, with success or with an error
SpecShutdown ==
    /\ InitFlow
    /\ [][NextShutdown]_vars
    /\ WF_vars(ExtractionSteps)
    /\ WF_vars(ProcessingSteps)
    /\ WF_vars(IndexerSteps)

\* ------------------------------------------------ stale-document deletion
\* A text-index document here is [source_file, import_timestamp, written]:
\* written tells whether this run wrote it.  Time is a clock that never goes
\* back: Utc::now() at import_start is not later than at any Place::new of
\* the run.
SourceFiles == { "a.osm.pbf", "b.osm.pbf" }

\* a variant of is_stale with "lte" in place of "lt", against which C26 is
\* tested
is_stale_OrEqual(doc, source_file, import_start) ==
    /\ doc.source_file = source_file
    /\ doc.import_timestamp <= import_start

\* the query of delete_stale_documents: term source_file, range
\* import_timestamp lt import_start
is_stale(doc, source_file, import_start) ==
    /\ doc.source_file = source_file
    /\ doc.import_timestamp < import_start

\* delete_by_query
delete_stale_documents(index, source_file, import_start) ==
    [ id \in { i \in DOMAIN index : ~is_stale(index[i], source_file, import_start) } |->
        index[id] ]

\* the text index before a run: every id is absent or holds a document of
\* one of the source files from an earlier time
IndexBefore ==
    UNION { [ ids -> [ source_file : SourceFiles, import_timestamp : 1..(MaxClock - 1),
                       written : { FALSE } ] ]
            : ids \in SUBSET (1..MaxDocs) }

InitRefresh ==
    /\ spatial_index = <<>>
    /\ pbf = <<>>
    /\ merge_roads = FALSE
    /\ PipelineInit
    /\ q = NoQuery

\* run_single: import_start = Utc::now(); the run will write the documents
\* todo
RefreshStart ==
    /\ q = NoQuery
    /\ \E index \in IndexBefore, todo \in SUBSET (1..MaxDocs), t \in 1..(MaxClock - 1),
          refresh \in BOOLEAN :
         q' = [ kind |-> "refresh", pc |-> "run", source_file |-> "a.osm.pbf",
                refresh |-> refresh, import_start |-> t, now |-> t, todo |-> todo,
                index |-> index, before |-> index ]
    /\ UNCHANGED ingest_vars

\* time passes
RefreshTick ==
    /\ q.kind = "refresh"
    /\ q.pc = "run"
    /\ q.now < MaxClock
    /\ q' = [ q EXCEPT !.now = @ + 1 ]
    /\ UNCHANGED ingest_vars

\* a place is built (Place::new: import_timestamp = Utc::now()) and the bulk
\* request writes it under its _id, or the item fails and the index keeps
\* what it has
RefreshIndexPlace ==
    /\ q.kind = "refresh"
    /\ q.pc = "run"
    /\ \E id \in q.todo, ok \in BOOLEAN :
         q' = [ q EXCEPT !.todo = @ \ { id },
                         !.index = IF ok
                                   THEN MapInsert(@, id, [ source_file |-> q.source_file,
                                                           import_timestamp |-> q.now,
                                                           written |-> TRUE ])
                                   ELSE @ ]
    /\ UNCHANGED ingest_vars

\* indexer.finish() has returned: with args.refresh the stale documents are
\* deleted
RefreshFinish ==
    /\ q.kind = "refresh"
    /\ q.pc = "run"
    /\ q.todo = {}
    /\ q' = [ q EXCEPT !.pc = "done", !.before = q.index,
                       !.index = IF q.refresh
                                 THEN delete_stale_documents(@, q.source_file, q.import_start)
                                 ELSE @ ]
    /\ UNCHANGED ingest_vars

NextRefresh ==
    \/ RefreshStart
    \/ RefreshTick
    \/ RefreshIndexPlace
    \/ RefreshFinish

SpecRefresh == InitRefresh /\ [][NextRefresh]_vars

\* ------------------------------------------------------- second ingest run
\* WayMerger.roads_by_name after the main pass over the first n objects
RECURSIVE CollectedRoads(_)
CollectedRoads(n) ==
    IF n = 0 THEN EmptyMap
    ELSE LET obj == pbf[n]
         IN  IF merge_roads /\ obj.type = "way" /\ is_road_way(obj.tags)
             THEN add_road(CollectedRoads(n - 1),
                           RoadWay(obj.id, [ obj.tags EXCEPT !["name"] = normalize(@) ],
                                   obj.nodes, obj.center, obj.bbox))
             ELSE CollectedRoads(n - 1)

\* the places a run over the inputs sends: admin boundaries, main pass,
\* merged roads
FirstRunPlaces ==
    { admin_place(spatial_index[i]) :
        i \in { k \in DOMAIN spatial_index : IsSome(spatial_index[k].centroid) } }
    \cup { main_place(Unwrap(extract_place(pbf[i]))) :
             i \in { k \in DOMAIN pbf :
                       /\ ~(merge_roads /\ pbf[k].type = "way" /\ is_road_way(pbf[k].tags))
                       /\ IsSome(extract_place(pbf[k])) } }
    \cup { road_place(merged) :
             merged \in { m \in merge(CollectedRoads(Len(pbf))) : IsSome(to_place(m)) } }

\* the sinks after a first run in which every write succeeded
FirstRunEs ==
    [ id \in { p.source_id : p \in FirstRunPlaces } |->
        Serialize_Place(CHOOSE p \in FirstRunPlaces : p.source_id = id) ]
FirstRunKvPlaces ==
    [ id \in { p.source_id : p \in FirstRunPlaces } |->
        from_place(CHOOSE p \in FirstRunPlaces : p.source_id = id) ]
FirstRunParents ==
    UNION { SeqRangeOf(parents_with_id(p)) : p \in FirstRunPlaces }
FirstRunKvAdmin ==
    [ id \in { source_id_of("relation", Unwrap(e.id)) : e \in FirstRunParents } |->
        admin_json(CHOOSE e \in FirstRunParents : source_id_of("relation", Unwrap(e.id)) = id) ]

\* a second run of the ingest over the same inputs: a new process (empty
\* cache, empty channels) against the sinks the first run left; q keeps the
\* keys the sinks hold at its start
InitRerun ==
    /\ spatial_index \in SpatialIndexInputs
    /\ pbf \in PbfInputs
    /\ merge_roads \in BOOLEAN
    /\ pc = "admin"
    /\ admin_todo = DOMAIN spatial_index
    /\ pos = 0
    /\ roads_by_name = EmptyMap
    /\ roads_todo = {}
    /\ tx_open = TRUE
    /\ chan = <<>>
    /\ pl_pc = "recv"
    /\ pl_buffer = <<>>
    /\ pl_i = 0
    /\ pl_final = FALSE
    /\ cache = EmptyMap
    /\ kv_places = FirstRunKvPlaces
    /\ kv_admin = FirstRunKvAdmin
    /\ kv_failures = 0
    /\ ix_sender_open = TRUE
    /\ ix_chan = <<>>
    /\ ix_pc = "run"
    /\ ix_buffer = <<>>
    /\ total_indexed = 0
    /\ total_errors = 0
    /\ es_docs = FirstRunEs
    /\ result = "none"
    /\ sent = <<>>
    /\ forwarded = <<>>
    /\ kv_failed = {}
    /\ bulk_writes = <<>>
    /\ q = [ kind |-> "rerun", es_keys |-> DOMAIN FirstRunEs,
             kv_keys |-> DOMAIN FirstRunKvPlaces, admin_keys |-> DOMAIN FirstRunKvAdmin ]

SpecRerun == InitRerun /\ [][Next]_vars

\* ------------------------------------------------------ road merging
\* The way merger on its own: a WayMerger is created, ways are handed to
\* add_road in any order, then merge drains it and every merged road is
\* converted with to_place (main.rs:496-531). The state is kept in q.

MainStreet == ("name" :> <<"Main", "Street">>) @@ ("highway" :> "residential")

\* the ways handed to the merger: chains of one road, a detached piece, a way
\* touching another only at an inner node, ways without nodes, a way whose
\* nodes have no coordinates, the same name under another highway value, and
\* ways without a name, without a highway value or of an excluded type
RoadUniverse ==
    { RoadWay(1, MainStreet, <<1, 2>>, Some(1), Some(GeoBbox_new(0, 0, 1, 1))),
      RoadWay(2, MainStreet, <<2, 5, 3>>, Some(2), Some(GeoBbox_new(1, 0, 2, 1))),
      RoadWay(3, MainStreet, <<4, 3>>, Some(3), Some(GeoBbox_new(2, 0, 3, 1))),
      RoadWay(4, MainStreet, <<7, 8>>, Some(4), Some(GeoBbox_new(5, 0, 6, 1))),
      RoadWay(5, MainStreet, <<6, 2, 9>>, Some(2), Some(GeoBbox_new(1, 1, 2, 2))),
      RoadWay(6, MainStreet, <<>>, None, None),
      RoadWay(7, MainStreet, <<>>, None, None),
      RoadWay(8, MainStreet, <<8, 10>>, None, None),
      RoadWay(9, ("name" :> <<"Main", "Street">>) @@ ("highway" :> "primary"),
              <<2, 11>>, Some(2), Some(GeoBbox_new(1, 0, 2, 1))),
      RoadWay(10, ("name" :> <<"Ring">>) @@ ("highway" :> "motorway"),
              <<1, 2>>, Some(1), Some(GeoBbox_new(0, 0, 1, 1))),
      RoadWay(11, ("name" :> <<"Ring">>) @@ ("highway" :> "tertiary_link"),
              <<2, 3>>, Some(2), Some(GeoBbox_new(1, 0, 2, 1))),
      RoadWay(12, ("highway" :> "residential"),
              <<1, 2>>, Some(1), Some(GeoBbox_new(0, 0, 1, 1))),
      RoadWay(13, ("name" :> <<"Main", "Street">>),
              <<2, 3>>, Some(2), Some(GeoBbox_new(1, 0, 2, 1))) }

InitMerge ==
    /\ spatial_index = <<>>
    /\ pbf = <<>>
    /\ merge_roads = FALSE
    /\ PipelineInit
    /\ q = NoQuery

\* WayMerger::new
MergerNew ==
    /\ q = NoQuery
    /\ q' = [ kind |-> "merge", pc |-> "add", added |-> <<>>,
              roads_by_name |-> EmptyMap, merged_roads |-> {}, places |-> {} ]
    /\ UNCHANGED ingest_vars

\* merger.add_road(way.id, tags, nodes); way ids are unique
MergerAddRoad ==
    /\ q.kind = "merge"
    /\ q.pc = "add"
    /\ Len(q.added) < MaxWays
    /\ \E way \in RoadUniverse :
        /\ \A i \in DOMAIN q.added : q.added[i].way_id # way.way_id
        /\ q' = [ q EXCEPT !.added = Append(@, way),
                           !.roads_by_name = add_road(@, way) ]
    /\ UNCHANGED ingest_vars

\* merger.merge(), then to_place for every merged road
MergerMerge ==
    /\ q.kind = "merge"
    /\ q.pc = "add"
    /\ LET merged_roads == merge(q.roads_by_name)
       IN  q' = [ q EXCEPT !.pc = "done",
                           !.merged_roads = merged_roads,
                           !.places = { [ road |-> m, place |-> to_place(m) ]
                                        : m \in merged_roads } ]
    /\ UNCHANGED ingest_vars

NextMerge == MergerNew \/ MergerAddRoad \/ MergerMerge

SpecMerge == InitMerge /\ [][NextMerge]_vars

\* ------------------------------------------------- boundary extraction
\* level_str.parse::<u8>(): the decimal strings of the model, None otherwise
parse_u8(level_str) ==
    LET digits == ("2" :> 2) @@ ("3" :> 3) @@ ("4" :> 4) @@ ("5" :> 5) @@ ("6" :> 6)
                  @@ ("7" :> 7) @@ ("8" :> 8) @@ ("9" :> 9) @@ ("10" :> 10)
                  @@ ("11" :> 11) @@ ("12" :> 12)
    IN  IF level_str \in DOMAIN digits THEN Some(digits[level_str]) ELSE None

\* AdminLevel::from_osm_level
from_osm_level(level) ==
    IF level \in 2..9 THEN Some(AdminLevel_all[level - 1])
    ELSE IF level \in { 10, 11 } THEN Some("Neighbourhood")
    ELSE None

\* the name map the extractor builds: name -> "default", name:<lang> -> <lang>
area_names(tags) ==
    LET langs == { "de", "fr" }
        named == { l \in langs : HasTag(tags, "name:" \o l) }
    IN  [ l \in named \cup (IF HasTag(tags, "name") THEN { "default" } ELSE {}) |->
            IF l = "default" THEN tags["name"] ELSE tags["name:" \o l] ]

\* abbr is overwritten by short_name, ISO3166-1:alpha2 and ISO3166-1:alpha3 in
\* the order of the tag keys, so the greatest key present wins
area_abbr(tags) ==
    IF HasTag(tags, "short_name") THEN Some(tags["short_name"])
    ELSE IF HasTag(tags, "ISO3166-1:alpha3") THEN Some(tags["ISO3166-1:alpha3"])
    ELSE IF HasTag(tags, "ISO3166-1:alpha2") THEN Some(tags["ISO3166-1:alpha2"])
    ELSE None

\* a first pass that requires a country code tag of a Country relation,
\* against which the extractor is compared
admin_relation_RequireCode(rel) ==
    IF ~TagIs(rel.tags, "boundary", "administrative") THEN None
    ELSE IF ~HasTag(rel.tags, "admin_level") THEN None
    ELSE IF ~IsSome(parse_u8(rel.tags["admin_level"])) THEN None
    ELSE IF ~IsSome(from_osm_level(Unwrap(parse_u8(rel.tags["admin_level"])))) THEN None
    ELSE LET level == Unwrap(from_osm_level(Unwrap(parse_u8(rel.tags["admin_level"]))))
         IN  IF level = "Country"
                /\ ~HasTag(rel.tags, "ISO3166-1")
                /\ ~HasTag(rel.tags, "ISO3166-1:alpha2")
                /\ ~HasTag(rel.tags, "ISO3166-1:alpha3")
             THEN None
             ELSE IF area_names(rel.tags) = EmptyMap THEN None
             ELSE Some(AdminArea(rel.id, level, area_names(rel.tags), area_abbr(rel.tags),
                                 None,
                                 IF HasTag(rel.tags, "wikidata")
                                 THEN Some(rel.tags["wikidata"]) ELSE None))

\* extract_admin_boundaries, first pass, for one relation: the AdminArea it
\* records, None when the relation is skipped
admin_relation(rel) ==
    IF ~TagIs(rel.tags, "boundary", "administrative") THEN None
    ELSE IF ~HasTag(rel.tags, "admin_level") THEN None
    ELSE IF ~IsSome(parse_u8(rel.tags["admin_level"])) THEN None
    ELSE IF ~IsSome(from_osm_level(Unwrap(parse_u8(rel.tags["admin_level"])))) THEN None
    ELSE LET level == Unwrap(from_osm_level(Unwrap(parse_u8(rel.tags["admin_level"]))))
         IN  IF area_names(rel.tags) = EmptyMap THEN None
             ELSE Some(AdminArea(rel.id, level, area_names(rel.tags), area_abbr(rel.tags),
                                 None,
                                 IF HasTag(rel.tags, "wikidata")
                                 THEN Some(rel.tags["wikidata"]) ELSE None))

\* a relation of the PBF file; cells is the area its outer ways enclose, empty
\* when no polygon can be built from them
AdminRel(id, tags, cells) == [ id |-> id, tags |-> tags, cells |-> cells ]

Administrative(level) == ("boundary" :> "administrative") @@ ("admin_level" :> level)

AdminRelUniverse ==
    << AdminRel(1, Administrative("2") @@ ("name" :> <<"Aland">>)
                   @@ ("ISO3166-1:alpha2" :> "AA"), {1, 2}),
       AdminRel(2, Administrative("2") @@ ("name" :> <<"Bland">>), {2, 3}),
       AdminRel(3, Administrative("2") @@ ("name:de" :> <<"Cland">>)
                   @@ ("ISO3166-1" :> "CC") @@ ("short_name" :> "C"), {3}),
       AdminRel(4, Administrative("4") @@ ("name" :> <<"North">>)
                   @@ ("wikidata" :> "Q4"), {1}),
       AdminRel(5, Administrative("2") @@ ("ISO3166-1:alpha3" :> "EEE"), {1}),
       AdminRel(6, Administrative("x") @@ ("name" :> <<"Fland">>), {1}),
       AdminRel(7, Administrative("12") @@ ("name" :> <<"Gland">>), {1}),
       AdminRel(8, ("boundary" :> "national_park") @@ ("admin_level" :> "2")
                   @@ ("name" :> <<"Park">>), {1}),
       AdminRel(9, Administrative("2") @@ ("name" :> <<"Iland">>)
                   @@ ("ISO3166-1:alpha3" :> "III"), {}),
       AdminRel(10, ("boundary" :> "administrative") @@ ("name" :> <<"Jland">>), {1}),
       AdminRel(11, Administrative("11") @@ ("name" :> <<"Kiez">>), {2}) >>

\* the orders in which a list sorted by level can hold a set of boundaries
SortedByLevel(boundaries) ==
    { seq \in [ 1..Cardinality(boundaries) -> boundaries ] :
        /\ \A i, j \in DOMAIN seq : i # j => seq[i] # seq[j]
        /\ \A i, j \in DOMAIN seq :
             i < j => LevelOrd(seq[i].area.level) <= LevelOrd(seq[j].area.level) }

InitExtract ==
    /\ spatial_index = <<>>
    /\ pbf = <<>>
    /\ merge_roads = FALSE
    /\ PipelineInit
    /\ q = NoQuery

\* extract_admin_boundaries is called on a PBF file
ExtractStart ==
    /\ q = NoQuery
    /\ \E idx \in UNION { IncreasingSeqs(n, Len(AdminRelUniverse)) : n \in 0..MaxObjects } :
         q' = [ kind |-> "extract", pc |-> "pass1",
                todo |-> [ i \in DOMAIN idx |-> AdminRelUniverse[idx[i]] ],
                read |-> <<>>, admin_relations |-> EmptyMap, boundaries |-> <<>> ]
    /\ UNCHANGED ingest_vars

\* first pass, one relation of the file
ExtractCollect ==
    /\ q.kind = "extract"
    /\ q.pc = "pass1"
    /\ q.todo # <<>>
    /\ LET rel == Head(q.todo)
           area == admin_relation(rel)
       IN  q' = [ q EXCEPT !.todo = Tail(@),
                           !.read = Append(@, rel),
                           !.admin_relations =
                               IF IsSome(area)
                               THEN (rel.id :> [ area |-> Unwrap(area), cells |-> rel.cells ])
                                        @@ @
                               ELSE @ ]
    /\ UNCHANGED ingest_vars

\* the geometries are built and the boundaries sorted by level; relations
\* without polygons are left out
ExtractBuild ==
    /\ q.kind = "extract"
    /\ q.pc = "pass1"
    /\ q.todo = <<>>
    /\ LET built == { AdminBoundary(q.admin_relations[id].area, q.admin_relations[id].cells,
                                    Cardinality(q.admin_relations[id].cells), None, <<>>)
                      : id \in { r \in DOMAIN q.admin_relations :
                                   q.admin_relations[r].cells # {} } }
       IN  \E sorted \in SortedByLevel(built) :
               q' = [ q EXCEPT !.pc = "done", !.boundaries = sorted ]
    /\ UNCHANGED ingest_vars

NextExtract == ExtractStart \/ ExtractCollect \/ ExtractBuild

SpecExtract == InitExtract /\ [][NextExtract]_vars

\* ============================================================== claims
\* helpers of the claims
SeqRange(seq) == { seq[i] : i \in DOMAIN seq }
SentIds == { sent[i].source_id : i \in DOMAIN sent }
ForwardedIds == { forwarded[i].source_id : i \in DOMAIN forwarded }
FailedBulk == { b \in DOMAIN bulk_writes : ~bulk_writes[b].ok }
\* the positions (request, item) at which a source id was submitted in bulk
BulkPositions(id) ==
    { bj \in UNION { { << b, j >> : j \in DOMAIN bulk_writes[b].ids } : b \in DOMAIN bulk_writes } :
        bulk_writes[bj[1]].ids[bj[2]] = id }
\* the KV admin keys of the filled parent slots of a place
ParentKeys(place) ==
    { source_id_of("relation", Unwrap(Unwrap(place.parent[l]).id)) :
        l \in { k \in AdminLevels : IsSome(place.parent[k]) } }

\* C1: when finish() returns (indexed_count, error_count), indexed_count +
\* error_count equals the number of documents submitted to the indexer.
C1_CountsAddUp ==
    IsSome(finish_result) =>
        Unwrap(finish_result)[1] + Unwrap(finish_result)[2] = Len(forwarded)

C3_EveryPlaceReachesBothSinks ==
    (pc = "done" /\ kv_failures = 0 /\ FailedBulk = {}) =>
        \A i \in DOMAIN sent :
            /\ sent[i].source_id \in DOMAIN kv_places
            /\ Cardinality(BulkPositions(sent[i].source_id)) = 1

C3_Witness ==
    /\ pc = "done"
    /\ kv_failures = 0
    /\ FailedBulk = {}
    /\ Len(sent) > BatchSize
    /\ pl_final
    /\ \E b \in DOMAIN bulk_writes : Len(bulk_writes[b].ids) < BatchSize

\* C4: the failure of one place's KV upsert does not prevent the other places
\* of the same batch and of later batches from being upserted and forwarded
\* to the bulk indexer.
C4_UpsertFailureSparesOthers ==
    (pl_pc = "done" /\ ix_pc /= "err") =>
        \A i \in DOMAIN sent :
            sent[i].source_id \notin kv_failed =>
                /\ sent[i].source_id \in DOMAIN kv_places
                /\ sent[i].source_id \in ForwardedIds

StripNames(parent) ==
    [ l \in AdminLevels |->
        IF IsSome(parent[l])
        THEN Some([ f \in {"name", "abbr", "id", "bbox"} |-> Unwrap(parent[l])[f] ])
        ELSE None ]

\* the hierarchy of a stored place, resolved against the parsed admin rows
ResolvedHierarchy(normalized, admin_map) ==
    StripNames([ l \in AdminLevels |-> admin_get(normalized.parent[l], admin_map) ])

\* C6: converting a Place to a NormalizedPlace and resolving its admin ids at
\* query time against the KV admin table of the same ingest reproduces the
\* original AdminEntry (name, abbr, id, bbox) of every filled slot.
C6_RoundTrip ==
    \A i \in DOMAIN forwarded :
        ResolvedHierarchy(kv_places[forwarded[i].source_id], parsed_admin_map(kv_admin))
            = StripNames(forwarded[i].parent)

\* C7: the admin entry written to the KV admin table is the KV form with the
\* names map as a nested object, while the entry embedded in the text-index
\* document omits names.
C7_KvAdminCarriesNames ==
    /\ \A i \in DOMAIN forwarded :
        \A l \in { k \in AdminLevels : IsSome(forwarded[i].parent[k]) } :
            LET entry == Unwrap(forwarded[i].parent[l])
            IN  kv_admin[source_id_of("relation", Unwrap(entry.id))] = to_scylla_json(entry)
    /\ \A id \in DOMAIN es_docs :
        \A l \in DOMAIN es_docs[id].parent : "names" \notin DOMAIN es_docs[id].parent[l]

\* C8: for every place that reaches a sink, phrase equals name["default"]
\* whenever name has a "default" entry.
PhraseIsDefaultName(place) ==
    "default" \in DOMAIN place.name => place.phrase = Some(place.name["default"])

C8_PhraseIsDefaultName ==
    /\ \A id \in DOMAIN kv_places : PhraseIsDefaultName(kv_places[id])
    /\ \A i \in DOMAIN forwarded : PhraseIsDefaultName(forwarded[i])

\* C9: no two places sent into the pipeline have the same source_id, across
\* admin-boundary places, places of the main pass and merged roads.
C9_SourceIdsUnique ==
    \A i, j \in DOMAIN sent : sent[i].source_id = sent[j].source_id => i = j

C9_Witness ==
    /\ pc = "done"
    /\ \E i \in DOMAIN pbf : pbf[i].type = "relation" /\ pbf[i].id = 1
    /\ source_id_of("relation", 1) \in SentIds
    /\ Len(sent) >= 3

C9_WitnessRoads ==
    /\ pc = "done"
    /\ \E i \in DOMAIN sent : << "merged_ways", 2 >> \in SeqRange(sent[i].categories)

\* C10: in a v1 or v2 result a parent slot (and in v2 its names map) is
\* populated only if the rank of the slot's layer is strictly greater than
\* the rank of the result's own layer.
C10_ParentsOutrankResult ==
    q.kind \in {"v1", "v2"} =>
        \A slot \in ResultSlots :
            /\ IsSome(q.result.parents[slot]) =>
                 get_layer_rank(slot) > get_layer_rank(q.result.layer)
            /\ (q.kind = "v2" /\ IsSome(q.result.parent_names[slot])) =>
                 get_layer_rank(slot) > get_layer_rank(q.result.layer)

C10_Witness ==
    /\ q /= NoQuery
    /\ q.kind = "v2"
    /\ q.place.layer = "Region"
    /\ IsSome(q.place.parent["County"])
    /\ Unwrap(q.place.parent["County"]) \in DOMAIN q.admin_map
    /\ ~IsSome(q.result.parents["County"])
    /\ ~IsSome(q.result.parent_names["County"])
    /\ ~IsSome(q.result.parents["Region"])
    /\ IsSome(q.result.parents["Country"])
    /\ IsSome(q.result.parent_names["Country"])

\* the ids of a sequence of hits or of results
IdsOf(seq) == [ i \in DOMAIN seq |-> seq[i].id ]
\* the hits of the request that have a record in the KV places table
HydratedHits == SelectSeq(q.hits, LAMBDA h : h.id \in DOMAIN q.kv)

\* C11 as stated: a text-index hit without a record in the KV places table
\* is dropped, the request does not fail because of it, and the other hits
\* are returned in their original relative order.
C11_Original ==
    q.kind \in {"search", "reverse"} =>
        /\ (q.es_ok /\ q.admin_ok) => q.response.status = "ok"
        /\ q.response.status = "ok" => IdsOf(q.response.results) = IdsOf(HydratedHits)

\* C11 amended: a hit without a KV record is dropped and the request does
\* not fail because of it; the response is the one the request would get for
\* the hit list without that hit, so the other hits keep their original
\* relative order in reverse geocoding and in a search without focus point,
\* and are ordered by their focus-adjusted scores in a search with one.
C11_MissingHitsAreDropped ==
    q.kind \in {"search", "reverse"} =>
        /\ (q.es_ok /\ q.admin_ok) => q.response.status = "ok"
        /\ q.response.status = "ok" =>
            /\ { q.response.results[i].id : i \in DOMAIN q.response.results }
                 = { q.hits[i].id : i \in DOMAIN q.hits } \cap DOMAIN q.kv
            /\ Len(q.response.results) = Len(HydratedHits)
            /\ ~IsSome(q.focus) => IdsOf(q.response.results) = IdsOf(HydratedHits)
            /\ q.response =
                 IF q.kind = "search"
                 THEN execute_search(HydratedHits, q.kv, q.focus, None, q.es_ok, q.admin_ok)
                 ELSE execute_reverse(HydratedHits, q.kv, q.es_ok, q.admin_ok)

C11_Witness ==
    /\ q.kind = "search"
    /\ q.response.status = "ok"
    /\ IsSome(q.focus)
    /\ Len(q.hits) = 3
    /\ q.hits[1].id \notin DOMAIN q.kv
    /\ Len(q.response.results) = 2
    /\ IdsOf(q.response.results) /= IdsOf(HydratedHits)

\* the boundaries PipService::lookup works on: those of the index that
\* contain the point and pass the limit level of the request
PipContaining ==
    { i \in DOMAIN spatial_index :
        /\ q.point \in spatial_index[i].cells
        /\ IsSome(q.limit) =>
             LevelOrd(spatial_index[i].area.level) < LevelOrd(Unwrap(q.limit)) }
PipAtLevel(level) == { i \in PipContaining : spatial_index[i].area.level = level }
\* the most specific of them that carry a country code
PipCodeCarriers == { i \in PipContaining : IsSome(spatial_index[i].area.iso_country_code) }
PipDeepestCarriers ==
    { i \in PipCodeCarriers :
        \A j \in PipCodeCarriers :
            LevelOrd(spatial_index[j].area.level) <= LevelOrd(spatial_index[i].area.level) }
\* the countries among them that match a country code by iso code or abbr
PipCountriesOf(code) ==
    { i \in PipAtLevel("Country") :
        \/ spatial_index[i].area.iso_country_code = code
        \/ spatial_index[i].area.abbr = code }
\* the slot of a level holds the boundary i
SlotHolds(level, i) ==
    /\ IsSome(q.hierarchy[level])
    /\ Unwrap(q.hierarchy[level]).id = Some(spatial_index[i].area.osm_id)
    /\ Unwrap(q.hierarchy[level]).abbr = spatial_index[i].area.abbr

\* C12: for a point contained in exactly one Country boundary C that carries
\* an ISO code, a lookup without limit level returns C in the country slot,
\* whatever lower-level boundaries contain the point and whatever country
\* code those carry.
C12_OnlyCountryIsReturned ==
    (q.kind = "pip" /\ ~IsSome(q.limit)) =>
        \A c \in PipAtLevel("Country") :
            ( /\ PipAtLevel("Country") = {c}
              /\ \/ IsSome(spatial_index[c].area.iso_country_code)
                 \/ IsSome(spatial_index[c].area.abbr) )
            => SlotHolds("Country", c)

\* C13: the forced country code is the one of the most specific containing
\* boundary that carries a code: when the deepest code-carrying boundaries
\* around the point carry the code of country A (a region R_A inside A), the
\* country slot holds a country of that code if one contains the point, and
\* no overlapping country B of another code, whatever the areas of A and B.
C13_CountryFollowsDeepestCode ==
    q.kind = "pip" =>
        /\ \A i \in PipAtLevel("Country") :
             (SlotHolds("Country", i) /\ PipCodeCarriers /= {}) =>
                 \E r \in PipDeepestCarriers :
                     i \in PipCountriesOf(spatial_index[r].area.iso_country_code)
        /\ \A r \in PipDeepestCarriers :
             ( /\ \A r2 \in PipDeepestCarriers :
                    spatial_index[r2].area.iso_country_code
                        = spatial_index[r].area.iso_country_code
               /\ PipCountriesOf(spatial_index[r].area.iso_country_code) /= {} )
             => \E a \in PipCountriesOf(spatial_index[r].area.iso_country_code) :
                    SlotHolds("Country", a)

C13_Witness ==
    /\ q.kind = "pip"
    /\ ~IsSome(q.limit)
    /\ \E a, b \in PipAtLevel("Country"), r \in PipDeepestCarriers :
         /\ a /= b
         /\ spatial_index[r].area.level = "Region"
         /\ a \in PipCountriesOf(spatial_index[r].area.iso_country_code)
         /\ b \notin PipCountriesOf(spatial_index[r].area.iso_country_code)
         /\ spatial_index[b].unsigned_area < spatial_index[a].unsigned_area
         /\ b < a
         /\ SlotHolds("Country", a)

\* the country codes the lookup can force: the codes of the most specific
\* code-carrying boundaries, or none
PipForcedCodes ==
    IF PipCodeCarriers = {} THEN { None }
    ELSE { spatial_index[r].area.iso_country_code : r \in PipDeepestCarriers }
\* the candidates of a level after the limit-level and country-code filters
PipCandidates(level, code) ==
    IF level = "Country" /\ IsSome(code) THEN PipCountriesOf(code) ELSE PipAtLevel(level)

\* C14: for every admin level the slot is filled iff at least one candidate
\* of that level contains the point (after the limit-level and country-code
\* filters), and it then holds a candidate of the smallest unsigned area:
\* never a boundary of another level or one that does not contain the point.
C14_SlotHoldsSmallestCandidate ==
    q.kind = "pip" =>
        \E code \in PipForcedCodes :
            \A level \in AdminLevels :
                LET cand == PipCandidates(level, code)
                IN  /\ IsSome(q.hierarchy[level]) <=> cand /= {}
                    /\ cand /= {} =>
                         \E i \in cand :
                            /\ q.hierarchy[level] = Some(AdminEntry_from_area(spatial_index[i].area))
                            /\ \A j \in cand :
                                 spatial_index[i].unsigned_area <= spatial_index[j].unsigned_area

C14_Witness ==
    /\ q.kind = "pip"
    /\ \E e, l \in PipAtLevel("Locality") :
         /\ l < e
         /\ spatial_index[e].unsigned_area < spatial_index[l].unsigned_area
         /\ SlotHolds("Locality", e)
    /\ PipAtLevel("Country") /= {}
    /\ ~IsSome(q.hierarchy["Region"])

\* C15: a lookup with limit level L fills no slot at a level >= L, and the
\* Place of an admin boundary has no parent at the boundary's own level or a
\* deeper one, so never the boundary itself.
C15_LimitLevelExcludesSameAndDeeper ==
    /\ (q.kind = "pip" /\ IsSome(q.limit)) =>
         \A level \in AdminLevels :
             LevelOrd(level) >= LevelOrd(Unwrap(q.limit)) => ~IsSome(q.hierarchy[level])
    /\ q.kind = "admin_place" =>
         \A level \in AdminLevels :
             IsSome(q.place.parent[level]) =>
                 /\ LevelOrd(level) < LevelOrd(q.boundary.area.level)
                 /\ Unwrap(q.place.parent[level]).id /= Some(q.boundary.area.osm_id)

C15_Witness ==
    /\ q.kind = "admin_place"
    /\ q.boundary.area.level = "Locality"
    /\ \E i \in DOMAIN spatial_index :
         /\ spatial_index[i].area.level = "Locality"
         /\ spatial_index[i] /= q.boundary
         /\ q.place.center_point \in spatial_index[i].cells
    /\ q.place.center_point \in q.boundary.cells
    /\ IsSome(q.place.parent["Country"])
    /\ ~IsSome(q.place.parent["Locality"])

\* a ring is the closed ring 1, 2, .., n, 1 from some start point in one of
\* the two directions
IsTheRing(ring, n) ==
    /\ Len(ring) = n + 1
    /\ ring[1] = ring[n + 1]
    /\ \E start \in 1..n :
         \/ \A i \in 1..n : ring[i] = ((start + i - 2) % n) + 1
         \/ \A i \in 1..n : ring[i] = ((start - i + n) % n) + 1

\* C16: for fragments that together form one closed polygon, in any order
\* and with any fragment reversed, merge_rings_to_polygons returns exactly
\* one polygon whose ring has the points of the original in the same cyclic
\* order up to direction.
C16_StitchedRingIsTheOriginal ==
    (q.kind = "relation" /\ q.absent = 0 /\ q.missing = 0) =>
        /\ q.rings = q.ways
        /\ Len(q.polygons) = 1
        /\ IsTheRing(q.polygons[1], q.n)

C16_Witness ==
    /\ q.kind = "relation"
    /\ q.absent = 0
    /\ q.missing = 0
    /\ Len(q.ways) >= 3
    /\ q.ways[1][1] /= 1
    /\ \E i \in DOMAIN q.ways : Len(q.ways[i]) >= 3 /\ q.ways[i][2] /= (q.ways[i][1] % q.n) + 1
    /\ \E i \in DOMAIN q.ways : q.ways[i][2] = (q.ways[i][1] % q.n) + 1
    /\ Len(q.polygons) = 1

\* C17: a fragment or stitched chain that never closes (its first and last
\* coordinates differ once no other fragment can be joined to it) is dropped
\* and yields no polygon.
C17_OpenChainIsDropped ==
    (q.kind = "relation" /\ q.absent /= 0 /\ q.missing = 0) => q.polygons = <<>>

\* C18: when a node of a member way is absent from the node table the whole
\* fragment of that way is omitted from ring stitching; with all member ways
\* and all their nodes present the relation resolves to a non-empty
\* multipolygon.
C18_WayWithMissingNodeIsOmitted ==
    q.kind = "relation" =>
        /\ q.missing /= 0 =>
             q.rings = SelectSeq(q.ways, LAMBDA w : \A i \in DOMAIN w : w[i] /= q.missing)
        /\ (q.missing = 0 /\ q.absent = 0) =>
             IsSome(q.geometry) /\ Unwrap(q.geometry) /= <<>>

\* C19: every polygon of the stitcher and of way resolution has an outer ring
\* of at least 4 points whose first and last coordinates are equal, and a
\* resolved geometry is never an empty multipolygon: it is absent instead.
C19_RingsAreClosed ==
    /\ q.kind = "relation" =>
         /\ \A i \in DOMAIN q.polygons :
              /\ Len(q.polygons[i]) >= 4
              /\ q.polygons[i][1] = q.polygons[i][Len(q.polygons[i])]
         /\ q.geometry = IF q.polygons = <<>> THEN None ELSE Some(q.polygons)
    /\ (q.kind = "way" /\ IsSome(q.geometry)) =>
             /\ Len(Unwrap(q.geometry)) >= 4
             /\ Unwrap(q.geometry)[1] = Unwrap(q.geometry)[Len(Unwrap(q.geometry))]

C19_Witness ==
    /\ q.kind = "relation"
    /\ q.absent /= 0
    /\ Len(q.rings) >= 2
    /\ Len(q.polygons) = 1
    /\ Len(q.polygons[1]) = q.n + 1

\* C20: synonym normalization is idempotent: for every text and every
\* replacement table loadable from synonym files, normalizing the normalized
\* text gives the normalized text.
C20_NormalizeIsIdempotent ==
    q.kind = "normalize" => q.twice = q.once

\* the requests made for chunk c, and whether the chunk failed in the end
ChunkRequests(c) == SelectSeq(q.requests, LAMBDA r : r.ci = c)
ChunkFailed(c) ==
    /\ ChunkRequests(c) /= <<>>
    /\ ChunkRequests(c)[Len(ChunkRequests(c))].outcome /= "ok"
    /\ (q.ci > c \/ q.pc /= "chunk")
ChunksOf(qid) ==
    { c \in DOMAIN chunks(q.to_fetch, CHUNK_SIZE) :
        qid \in SeqRangeOf(chunks(q.to_fetch, CHUNK_SIZE)[c]) }

\* C21: the fetcher makes at most 2 requests per chunk, the second only after
\* the first failed by transport error or non-success status; a chunk that
\* still fails is swallowed: fetch_batch returns success, the cache is not
\* changed by that chunk, and the places go on to step 2 with their OSM names
\* only.
C21_FetchFailureIsSwallowed ==
    q.kind = "fetch" =>
        /\ \A c \in DOMAIN chunks(q.to_fetch, CHUNK_SIZE) : Len(ChunkRequests(c)) <= 2
        /\ \A k \in DOMAIN q.requests :
             q.requests[k].attempt > 1 =>
                 /\ k > 1
                 /\ q.requests[k - 1].ci = q.requests[k].ci
                 /\ q.requests[k - 1].attempt = 1
                 /\ q.requests[k - 1].outcome \in { "transport", "status" }
        /\ \A k \in DOMAIN q.requests :
             q.requests[k].outcome /= "ok" =>
                 q.requests[k].cache_after = q.requests[k].cache_before
        /\ (q.pc \in { "merge", "upsert" } /\ buffer_qids(q.places0) /= <<>>) => q.result = "ok"
        /\ q.pc = "upsert" =>
             \A i \in DOMAIN q.places0 :
                 (/\ IsSome(q.places0[i].wikidata_id)
                  /\ ChunksOf(Unwrap(q.places0[i].wikidata_id)) /= {}
                  /\ \A c \in ChunksOf(Unwrap(q.places0[i].wikidata_id)) : ChunkFailed(c))
                     => q.places[i].name = q.places0[i].name

C21_Witness ==
    /\ q.kind = "fetch"
    /\ q.pc = "upsert"
    /\ Len(q.requests) = 3
    /\ q.requests[1].outcome = "ok"
    /\ q.requests[2].outcome = "status"
    /\ q.requests[3].outcome = "transport"
    /\ q.requests[3].ci = 2
    /\ q.result = "ok"
    /\ \E i \in DOMAIN q.places : q.places[i].name /= q.places0[i].name

\* C22: fetch_batch never requests a Q-ID that is a key of the cache when the
\* call starts, every request carries at most 50 Q-IDs, and when all Q-IDs
\* are cached no request is made.
C22_OnlyUncachedAreRequested ==
    q.kind = "fetch" =>
        /\ \A k \in DOMAIN q.requests :
             /\ \A qid \in SeqRangeOf(q.requests[k].qids) : qid \notin DOMAIN q.cache0
             /\ Len(q.requests[k].qids) <= 50
        /\ (\A qid \in SeqRangeOf(buffer_qids(q.places0)) : qid \in DOMAIN q.cache0)
               => q.requests = <<>>

C22_Witness ==
    /\ q.kind = "fetch"
    /\ q.pc = "upsert"
    /\ Len(q.requests) = 2
    /\ Len(q.requests[1].qids) = 50
    /\ q.requests[2].ci = 2
    /\ \E qid \in SeqRangeOf(buffer_qids(q.places0)) : qid \in DOMAIN q.cache0

\* the cache fetch_batch left behind
CacheAfterFetch ==
    IF q.requests = <<>> THEN q.cache0 ELSE q.requests[Len(q.requests)].cache_after

\* C23: merge_labels leaves every language already in names unchanged, adds
\* only the languages absent from names with the cached label, changes
\* nothing when the Q-ID is not cached, never modifies the cache, and applied
\* twice equals applied once.
C23_MergeFillsOnlyMissing ==
    (q.kind = "fetch" /\ q.pc = "upsert") =>
        /\ q.cache = CacheAfterFetch
        /\ q.twice = q.places
        /\ \A i \in DOMAIN q.places0 :
             LET before == q.places0[i].name
                 after == q.places[i].name
                 qid == q.places0[i].wikidata_id
             IN  /\ \A lang \in DOMAIN before : lang \in DOMAIN after /\ after[lang] = before[lang]
                 /\ (IsSome(qid) /\ Unwrap(qid) \in DOMAIN q.cache) =>
                      /\ DOMAIN after = DOMAIN before \cup DOMAIN q.cache[Unwrap(qid)]
                      /\ \A lang \in DOMAIN after \ DOMAIN before :
                           after[lang] = q.cache[Unwrap(qid)][lang]
                 /\ ~(IsSome(qid) /\ Unwrap(qid) \in DOMAIN q.cache) => after = before
                 /\ [ q.places[i] EXCEPT !.name = before ] = q.places0[i]

C23_Witness ==
    /\ q.kind = "fetch"
    /\ q.pc = "upsert"
    /\ \E i \in DOMAIN q.places :
         /\ "de" \in DOMAIN q.places0[i].name
         /\ "en" \notin DOMAIN q.places0[i].name
         /\ "en" \in DOMAIN q.places[i].name
         /\ q.places[i].name["de"] /= q.cache[Unwrap(q.places0[i].wikidata_id)]["de"]
    /\ \E i \in DOMAIN q.places :
         /\ IsSome(q.places0[i].wikidata_id)
         /\ Unwrap(q.places0[i].wikidata_id) \notin DOMAIN q.cache

\* the places in flight and indexed, in the order they travel: none is lost,
\* duplicated or out of order
FlowPlaces ==
    q.indexed \o q.ix_buffer \o q.ix_chan
        \o (IF q.pl_pc = "send" THEN SubSeq(q.pl_buffer, q.pl_i, Len(q.pl_buffer))
            ELSE q.pl_buffer)
        \o q.chan

\* C24: the pipeline is bounded end to end: the extraction -> processing
\* channel holds at most 2000 places, the processing -> indexer channel at most
\* 2 * batch_size, both buffers at most batch_size; a sender of a full channel
\* waits, and no place is dropped or overwritten because of saturation.
C24_PipelineIsBounded ==
    q.kind = "flow" =>
        /\ Len(q.chan) <= 2000
        /\ Len(q.ix_chan) <= 2 * BatchSize
        /\ Len(q.pl_buffer) <= BatchSize
        /\ Len(q.ix_buffer) <= BatchSize
        /\ FlowPlaces = [ i \in 1..(q.next - 1) |-> i ]

\* both channels and both buffers are full and both senders wait
C24_Witness ==
    /\ q.kind = "flow"
    /\ Len(q.chan) = 2000
    /\ q.next <= q.total
    /\ Len(q.ix_chan) = 2 * BatchSize
    /\ q.pl_pc = "send"
    /\ Len(q.pl_buffer) = BatchSize
    /\ Len(q.ix_buffer) = BatchSize

\* the places run_single builds for the admin boundaries of the index, and
\* for the merged roads of the way merger
AdminPlacesOfRun ==
    { admin_place(spatial_index[i]) :
        i \in { k \in DOMAIN spatial_index : IsSome(spatial_index[k].centroid) } }
RoadPlacesOfRun ==
    { road_place(merged) : merged \in { m \in merge(roads_by_name) : IsSome(to_place(m)) } }

\* the stage of run_single each sent place comes from: 1 for the place of an
\* admin boundary, 3 for the place of a merged road, 2 for a place of the main
\* pass
SentStages ==
    LET admin_places == AdminPlacesOfRun
        road_places == IF sent = <<>> THEN {} ELSE RoadPlacesOfRun
    IN  [ i \in DOMAIN sent |->
            IF sent[i] \in admin_places THEN 1
            ELSE IF sent[i] \in road_places THEN 3 ELSE 2 ]

SourceIdsOf(seq) == [ i \in DOMAIN seq |-> seq[i].source_id ]

\* C25: every admin-boundary place is sent into the pipeline channel before
\* any place of the main pass and every merged-road place after all places of
\* the main pass, and the consumer receives them in that order.
C25_AdminFirstRoadsLast ==
    LET stages == SentStages
    IN  /\ \A i, j \in DOMAIN sent : i < j => stages[i] <= stages[j]
        /\ (sent /= <<>> /\ stages[Len(sent)] > 1) => admin_todo = {}
        /\ (sent /= <<>> /\ stages[Len(sent)] = 3) => pos = Len(pbf)
        /\ Len(pl_buffer) + Len(chan) <= Len(sent)
        /\ SourceIdsOf(pl_buffer \o chan)
             = SubSeq(SourceIdsOf(sent), Len(sent) - Len(pl_buffer) - Len(chan) + 1, Len(sent))

C25_Witness ==
    /\ SeqRange(SentStages) = { 1, 2, 3 }
    /\ pl_buffer /= <<>>
    /\ chan /= <<>>

\* C26: stale-document deletion deletes only documents whose source_file is
\* this ingest's source file and whose import_timestamp is earlier than the
\* start of this ingest; no document written by the current run is deleted
\* and documents of other source files are untouched.
C26_OnlyStaleAreDeleted ==
    (q.kind = "refresh" /\ q.pc = "done") =>
        /\ DOMAIN q.index \subseteq DOMAIN q.before
        /\ \A id \in DOMAIN q.before \ DOMAIN q.index :
             /\ q.before[id].source_file = q.source_file
             /\ q.before[id].import_timestamp < q.import_start
        /\ \A id \in DOMAIN q.before :
             (q.before[id].written \/ q.before[id].source_file /= q.source_file) =>
                 (id \in DOMAIN q.index /\ q.index[id] = q.before[id])

C26_Witness ==
    /\ q.kind = "refresh"
    /\ q.pc = "done"
    /\ q.import_start > 1
    /\ DOMAIN q.before \ DOMAIN q.index /= {}
    /\ \E id \in DOMAIN q.index :
         q.index[id].written /\ q.index[id].import_timestamp = q.import_start

\* C27: re-running an ingest over the same input is idempotent on keys: the
\* second run writes text-index documents under _id = source_id and KV rows
\* under id = source_id and "relation/<osm_id>", so it overwrites and never
\* duplicates, and after it both sinks hold the keys they held after the first
\* run.
C27_RerunKeepsKeys ==
    q.kind = "rerun" =>
        /\ DOMAIN es_docs = q.es_keys
        /\ DOMAIN kv_places = q.kv_keys
        /\ DOMAIN kv_admin = q.admin_keys
        /\ (pc = "done" /\ kv_failures = 0 /\ FailedBulk = {}
              /\ \A b \in DOMAIN bulk_writes : bulk_writes[b].errors = 0) =>
               /\ SentIds = DOMAIN es_docs
               /\ SentIds = DOMAIN kv_places
               /\ \A id \in SentIds : Cardinality(BulkPositions(id)) = 1

C27_Witness ==
    /\ q.kind = "rerun"
    /\ pc = "done"
    /\ kv_failures = 0
    /\ FailedBulk = {}
    /\ Len(bulk_writes) >= 2
    /\ \A b \in DOMAIN bulk_writes : bulk_writes[b].errors = 0
    /\ Cardinality(q.es_keys) >= 3
    /\ q.admin_keys /= {}
    /\ \E i \in DOMAIN sent : << "merged_ways", 2 >> \in SeqRange(sent[i].categories)

\* ---- road merging
MergeDone == q.kind = "merge" /\ q.pc = "done"
\* the first and last node ids of a way
EndNodeIds(way) ==
    IF way.nodes = <<>> THEN {} ELSE { Head(way.nodes), way.nodes[Len(way.nodes)] }
SharesEndpoint(a, b) == EndNodeIds(a) \cap EndNodeIds(b) # {}
\* the ways linked to grp by a chain of endpoint-sharing ways
RECURSIVE Component(_, _)
Component(ways, grp) ==
    LET more == { w \in ways : \E g \in grp : SharesEndpoint(g, w) }
    IN  IF more \subseteq grp THEN grp ELSE Component(ways, grp \cup more)
RoadsOfKey(key) == { m \in q.merged_roads : get_merge_key(m.tags) = Some(key) }

\* C28: within one group the merged roads are exactly the connected
\* components of "shares a first or last node id": two ways are directly
\* connected iff they share an endpoint node id, every way of the group is in
\* exactly one merged road, and the merged roads are the chains of
\* endpoint-sharing ways
C28_RoadsAreEndpointComponents ==
    MergeDone =>
        \A key \in DOMAIN q.roads_by_name :
            LET ways == SeqRange(q.roads_by_name[key])
            IN  /\ \A a, b \in ways :
                     a # b => (is_connected_to_group(<< a >>, b) <=> SharesEndpoint(a, b))
                /\ \A w \in ways :
                     Cardinality({ m \in RoadsOfKey(key) :
                                     w.way_id \in SeqRange(m.way_ids) }) = 1
                /\ { SeqRange(m.way_ids) : m \in RoadsOfKey(key) }
                     = { { w.way_id : w \in Component(ways, { w0 }) } : w0 \in ways }

\* the candidates as the specification words them
ExcludedHighways ==
    { "motorway", "motorway_link", "trunk_link", "primary_link", "secondary_link",
      "tertiary_link" }
IsCandidate(way) ==
    /\ "name" \in DOMAIN way.tags
    /\ "highway" \in DOMAIN way.tags
    /\ way.tags["highway"] \notin ExcludedHighways
GroupKey(way) == way.tags["name"] \o << "|", way.tags["highway"] >>

\* C29: a way is stored by add_road iff it has a name and a highway value
\* that is not an excluded one; it is stored once, under the key
\* "<name>|<highway>", in the order of the calls; a way without a key is
\* stored nowhere
C29_CandidatesAreKeyed ==
    q.kind = "merge" =>
        /\ \A i \in DOMAIN q.added :
             LET way == q.added[i]
             IN  IF IsCandidate(way)
                 THEN /\ get_merge_key(way.tags) = Some(GroupKey(way))
                      /\ GroupKey(way) \in DOMAIN q.roads_by_name
                      /\ way \in SeqRange(q.roads_by_name[GroupKey(way)])
                 ELSE /\ get_merge_key(way.tags) = None
                      /\ \A key \in DOMAIN q.roads_by_name :
                           way \notin SeqRange(q.roads_by_name[key])
        /\ \A key \in DOMAIN q.roads_by_name :
             /\ q.roads_by_name[key] # <<>>
             /\ q.roads_by_name[key]
                  = SelectSeq(q.added, LAMBDA w : IsCandidate(w) /\ GroupKey(w) = key)

C29_Witness ==
    /\ q.kind = "merge"
    /\ Cardinality(DOMAIN q.roads_by_name) = 2
    /\ \E i \in DOMAIN q.added :
         /\ ~IsCandidate(q.added[i])
         /\ "name" \in DOMAIN q.added[i].tags
         /\ "highway" \in DOMAIN q.added[i].tags

\* the number of ways of a set of merged roads
RECURSIVE WaysOfRoads(_)
WaysOfRoads(roads) ==
    IF roads = {} THEN 0
    ELSE LET m == CHOOSE m \in roads : TRUE
         IN  Len(m.way_ids) + WaysOfRoads(roads \ { m })
AddedPos(way_id) == CHOOSE i \in DOMAIN q.added : q.added[i].way_id = way_id
\* the place of a merged road: way/<first way>, Street, merged_ways:<n> for n > 1
IsPlaceOfRoad(place, m) ==
    /\ place.source_id = source_id_of("way", m.way_ids[1])
    /\ place.layer = "Street"
    /\ \A id \in SeqRange(m.way_ids) : AddedPos(m.way_ids[1]) <= AddedPos(id)
    /\ (<< "merged_ways", Len(m.way_ids) >> \in SeqRange(place.categories))
         <=> Len(m.way_ids) > 1
    /\ \A c \in SeqRange(place.categories) :
         c[1] = "merged_ways" => c[2] = Len(m.way_ids) /\ Len(m.way_ids) > 1
WaysAddUp ==
    WaysOfRoads(q.merged_roads)
        = Cardinality({ i \in DOMAIN q.added : IsCandidate(q.added[i]) })

\* C30 as worded: every merged road becomes one place way/<first way> of
\* layer Street, with merged_ways:<n> exactly when it has n > 1 ways, and the
\* ways of all merged roads are as many as the candidate ways added
C30_Original ==
    MergeDone =>
        /\ \A r \in q.places : IsSome(r.place) /\ IsPlaceOfRoad(Unwrap(r.place), r.road)
        /\ WaysAddUp

\* C30: a merged road becomes a place exactly when one of its nodes has
\* coordinates; the place is way/<first way of the road>, of layer Street,
\* with merged_ways:<n> exactly when the road has n > 1 ways; places of
\* different roads have different ids; the ways of all merged roads are as
\* many as the candidate ways added
C30_ResolvedRoadsBecomePlaces ==
    MergeDone =>
        /\ \A r \in q.places :
             /\ IsSome(r.place)
                  <=> \E i \in DOMAIN r.road.way_ids :
                        \E w \in SeqRange(q.added) :
                            w.way_id = r.road.way_ids[i] /\ IsSome(w.center)
             /\ IsSome(r.place) => IsPlaceOfRoad(Unwrap(r.place), r.road)
        /\ \A r1, r2 \in q.places :
             IsSome(r1.place) /\ IsSome(r2.place) /\ r1 # r2
                 => Unwrap(r1.place).source_id # Unwrap(r2.place).source_id
        /\ { r.road : r \in q.places } = q.merged_roads
        /\ WaysAddUp

C30_Witness ==
    /\ MergeDone
    /\ \E r \in q.places : IsSome(r.place) /\ Len(r.road.way_ids) > 1
    /\ \E r \in q.places : ~IsSome(r.place)

\* ---- boundary extraction
CountryCodeTags == { "ISO3166-1", "ISO3166-1:alpha2", "ISO3166-1:alpha3" }
RelationOf(boundary) ==
    CHOOSE rel \in SeqRange(q.read) : rel.id = boundary.area.osm_id

\* C31: every Country boundary the extractor returns comes from a relation
\* that carries one of the tags ISO3166-1, ISO3166-1:alpha2, ISO3166-1:alpha3
C31_CountryBoundariesCarryCode ==
    q.kind = "extract" /\ q.pc = "done" =>
        \A i \in DOMAIN q.boundaries :
            q.boundaries[i].area.level = "Country"
                => DOMAIN RelationOf(q.boundaries[i]).tags \cap CountryCodeTags # {}

\* ---- display names
\* value is what the rule "names[lang], else names[default], else any entry"
\* gives for a name map
ResolvedIn(value, names, lang) ==
    IF IsSome(lang) /\ Unwrap(lang) \in DOMAIN names THEN value = names[Unwrap(lang)]
    ELSE IF "default" \in DOMAIN names THEN value = names["default"]
    ELSE \E l \in DOMAIN names : value = names[l]

\* C32: the display name of a result is name[preferred_lang] if present,
\* else name["default"], else an entry of the name map; the name of an admin
\* parent found in the admin map is resolved the same way against the names
\* of its AdminEntry
C32_DisplayNameFollowsLanguage ==
    q.kind \in { "display", "display_v2" } =>
        /\ DOMAIN q.place.name # {} => ResolvedIn(q.result.name, q.place.name, q.lang)
        /\ \A slot \in ResultSlots :
             LET entry == admin_get(q.place.parent[slot], q.admin_map)
             IN  IF IsSome(entry) /\ get_layer_rank(slot) > get_layer_rank(q.place.layer)
                 THEN /\ IsSome(q.result.parents[slot])
                      /\ ResolvedIn(Unwrap(q.result.parents[slot]), Unwrap(entry).names, q.lang)
                 ELSE ~IsSome(q.result.parents[slot])

\* a request in a language neither the place nor its country has a name in,
\* and neither has a default name
C32_Witness ==
    /\ q.kind = "display_v2"
    /\ q.lang = Some("it")
    /\ DOMAIN q.place.name = { "de", "fr" }
    /\ IsSome(q.place.parent["Country"])
    /\ Unwrap(q.place.parent["Country"]) \in DOMAIN q.admin_map
    /\ DOMAIN q.admin_map[Unwrap(q.place.parent["Country"])].names = { "de", "fr" }
    /\ IsSome(q.result.parents["Country"])

\* ---- shutdown
\* run_single has sent or given up every place, dropped its sender, and both
\* tasks have ended
FlowCompleted ==
    /\ q.kind = "flow"
    /\ ~q.tx_open
    /\ q.pl_pc \in { "done", "dead" }
    /\ q.ix_pc \in { "done", "err" }
ProcessingEnded == q.kind = "flow" /\ q.pl_pc \in { "done", "dead" }
IndexerEnded == q.kind = "flow" /\ q.ix_pc \in { "done", "err" }
\* a run whose places all pass the processing task of the model
FlowWhole == q.kind = "flow" /\ q.total = FlowWindow + 1

\* C33: under fair scheduling a run always completes: once the extraction
\* has dropped its sender the processing task drains the channel and ends,
\* then the indexer task flushes and ends; a send into a channel whose
\* receiver is gone fails instead of waiting, so no stage waits for ever on a
\* full channel
C33_RunCompletes ==
    /\ FlowWhole ~> FlowCompleted
    /\ (FlowWhole /\ ~q.tx_open) ~> ProcessingEnded
    /\ (FlowWhole /\ ProcessingEnded) ~> IndexerEnded
    /\ [](q.kind = "flow" /\ q.pl_pc = "send" /\ q.ix_pc = "err" => ENABLED FlowForwardFails)
    /\ [](q.kind = "flow" /\ q.next <= q.total /\ q.pl_pc = "dead" => ENABLED FlowSendFails)

\* the run has completed although the indexer ended early while the
\* processing task was waiting to send into its full channel
C33_Witness ==
    /\ FlowWhole
    /\ FlowCompleted
    /\ q.ix_pc = "err"
    /\ q.pl_pc = "done"
    /\ q.received = q.total

\* ---- stitching of two rings
IsClosedFragment(ring) == ring[1] = ring[Len(ring)] /\ Len(ring) >= 4

\* C34: a fragment that is already closed (first = last, 4 points or more)
\* is returned as a ring of its own wherever it stands in the list; it is
\* never made part of another ring
C34_ClosedFragmentIsOwnRing ==
    q.kind = "stitch" =>
        \A i \in DOMAIN q.rings :
            IsClosedFragment(q.rings[i])
                => \E j \in DOMAIN q.polygons : q.polygons[j] = q.rings[i]

\* ---- the node table
NodeInFile(id) == \E i \in DOMAIN q.file : q.file[i] = id

\* C35: the built node table is sorted by id whatever the order of the file,
\* and a lookup gives the coordinates of the node when the node is referred
\* to by a recorded way and is in the file, and nothing otherwise
C35_NodeTableSortedAndExact ==
    q.kind = "nodes" /\ q.pc \in { "built", "looked" } =>
        /\ \A i, j \in DOMAIN q.nodes_mmap :
               i < j => q.nodes_mmap[i].id < q.nodes_mmap[j].id
        /\ q.pc = "looked" =>
               q.found = IF q.asked \in q.needed_nodes /\ NodeInFile(q.asked)
                         THEN Some([ x |-> NodeOf(q.asked).lon, y |-> NodeOf(q.asked).lat ])
                         ELSE None

\* a file out of order in its middle only, a stored node found and
\* a node of the file that no way refers to
C35_Witness ==
    /\ q.kind = "nodes" /\ q.pc = "looked"
    /\ q.file = << 2, 1, 4, 3 >> \/ q.file = << 2, 1, 3 >>
    /\ q.needed_nodes = { 1, 2, 3 }
    /\ q.asked = 1 /\ IsSome(q.found)

\* ---- the spatial index, built
RECURSIVE BucketTotal(_)
BucketTotal(by_level) ==
    IF by_level = <<>> THEN 0 ELSE Len(Head(by_level)[2]) + BucketTotal(Tail(by_level))

\* the boundaries passed to build whose polygons contain the point, by id
ContainingIds ==
    { q.boundaries[i].id : i \in { j \in DOMAIN q.boundaries :
          \E k \in DOMAIN q.boundaries[j].geometry :
              LET r == q.boundaries[j].geometry[k]
              IN  r[1] < q.lon /\ q.lon < r[3] /\ r[2] < q.lat /\ q.lat < r[4] } }

\* C36: a lookup returns the boundaries whose polygon contains the point,
\* each of them once and no other; len() is the number of boundaries passed
\* to build that have a bounding box, and the sizes of the level buckets add
\* up to it
C36_LookupIsExactAndLenCounts ==
    q.kind = "index" =>
        /\ q.len = Cardinality({ i \in DOMAIN q.boundaries : q.boundaries[i].geometry # <<>> })
        /\ q.len = BucketTotal(q.by_level)
        /\ q.pc = "looked" =>
               /\ { q.found[i].id : i \in DOMAIN q.found } = ContainingIds
               /\ \A i, j \in DOMAIN q.found : q.found[i] = q.found[j] => i = j

\* a point inside the envelope of the two-polygon region but outside its
\* polygons, in an index built from a list with a boundary without geometry
C36_Witness ==
    /\ q.kind = "index" /\ q.pc = "looked"
    /\ q.lon = 3 /\ q.lat = 1
    /\ \E i \in DOMAIN q.boundaries : q.boundaries[i].id = 22
    /\ \E i \in DOMAIN q.boundaries : q.boundaries[i].id = 23
    /\ Len(q.found) = 2 /\ q.len = 3

\* ---- the text index request
\* the filter list of the boolean query that function_score wraps
WrappedFilters ==
    value_index(q.body, << "query", "function_score", "query", "bool", "filter" >>)

\* C37: with a bbox the request carries the geo_bounding_box filter on
\* center_point (top_left = (minLon, maxLat), bottom_right = (maxLon, minLat))
\* in the filter list of the boolean query wrapped by function_score, next
\* to the layer filter when there is one, and function_score is the only
\* clause of the query
C37_BboxFilterInsideFunctionScore ==
    q.kind = "request" /\ IsSome(q.params.bbox) =>
        LET bbox == Unwrap(q.params.bbox)
            expected == JsonObject("geo_bounding_box" :> JsonObject("center_point" :>
                JsonObject(
                    ("top_left" :> JsonObject(("lon" :> bbox[1]) @@ ("lat" :> bbox[4])))
                    @@ ("bottom_right" :> JsonObject(("lon" :> bbox[3]) @@ ("lat" :> bbox[2]))))))
        IN  /\ DOMAIN value_index(q.body, << "query" >>).m = { "function_score" }
            /\ is_array(WrappedFilters)
            /\ \E i \in DOMAIN WrappedFilters.a : WrappedFilters.a[i] = expected
            /\ IsSome(q.params.layers) =>
                   \E i \in DOMAIN WrappedFilters.a :
                       WrappedFilters.a[i] = terms_filter(Unwrap(q.params.layers))

\* ---- batch import
\* the prepared regions of the run: held by the producer, in the channel,
\* held by the ingest loop, and ingested
BatchPrepared ==
    { q.chan[i] : i \in DOMAIN q.chan }
    \cup { [ region |-> q.ingested[i].region, create_index |-> q.ingested[i].create_index ]
           : i \in DOMAIN q.ingested }
    \cup (IF IsSome(q.pending) THEN { Unwrap(q.pending) } ELSE {})
    \cup (IF IsSome(q.current) THEN { Unwrap(q.current) } ELSE {})

\* C38: create_index is enabled for at most one region of a batch run and
\* only for the first region of the configuration; after a skipped region
\* or a failed preparation no later region has create_index enabled
C38_CreateIndexOnlyFirstRegion ==
    q.kind = "batch" =>
        /\ \A p \in BatchPrepared : p.create_index => p.region = 1 /\ q.create_index
        /\ Cardinality({ p \in BatchPrepared : p.create_index }) <= 1
        /\ \A p \in BatchPrepared : \A r \in q.skipped :
               r < p.region => ~p.create_index

\* the first region was skipped and the second one was ingested in a run
\* started with create_index
C38_Witness ==
    /\ q.kind = "batch" /\ q.create_index
    /\ 1 \in q.skipped
    /\ \E i \in DOMAIN q.ingested : q.ingested[i].region = 2 /\ ~q.ingested[i].create_index

\* the prepared regions that wait for the ingest loop: in the channel, and
\* held by the producer while its send waits for room
PreparedWaiting == Len(q.chan) + (IF IsSome(q.pending) THEN 1 ELSE 0)

\* what C39 says of a run apart from the number of waiting regions
BatchOrderly ==
    /\ \A v \in DOMAIN q.versions :
           \E i \in DOMAIN q.ingested :
               q.ingested[i].region = q.versions[v] /\ q.ingested[i].ok
    /\ \A i \in DOMAIN q.ingested :
           ~q.ingested[i].ok =>
               \A v \in DOMAIN q.versions : q.versions[v] # q.ingested[i].region
    /\ q.c_pc = "done" =>
           { q.ingested[i].region : i \in DOMAIN q.ingested } = Regions \ q.skipped
    /\ \A i, j \in DOMAIN q.ingested :
           i < j => q.ingested[i].region < q.ingested[j].region

ParentIds(place) ==
    LET parents == parents_with_id(place)
    IN  { source_id_of("relation", Unwrap(parents[i].id)) : i \in DOMAIN parents }

\* C40: a place is sent to the bulk indexer only when the KV upserts of its
\* admin parents and of its normalized record are done; a place record is
\* written only with the parents of the place written; and every document
\* of the text index has its KV place record
C40_KvBeforeIndexer ==
    /\ [][ Len(forwarded') > Len(forwarded) =>
               LET place == forwarded'[Len(forwarded')]
               IN  /\ place.source_id \in DOMAIN kv_places
                   /\ kv_places[place.source_id] = from_place(place)
                   /\ ParentIds(place) \subseteq DOMAIN kv_admin
                   /\ place.source_id \notin kv_failed ]_vars
    /\ [][ \A id \in DOMAIN kv_places' :
               id \notin DOMAIN kv_places =>
                   \A i \in DOMAIN pl_buffer :
                       pl_buffer[i].source_id = id =>
                           ParentIds(pl_buffer[i]) \subseteq DOMAIN kv_admin' ]_vars
    /\ [](\A id \in DOMAIN es_docs : id \in DOMAIN kv_places)

\* a run with a failed upsert, a forwarded place with a parent, and a
\* document in the text index
C40_Witness ==
    /\ kv_failed # {}
    /\ \E i \in DOMAIN forwarded : ParentIds(forwarded[i]) # {}
    /\ DOMAIN es_docs # {}

====
